---------------------------- MODULE Spec2Model ----------------------------
(***************************************************************************)
(* A model of the Snowflake data-quality dashboard: identifier quoting,    *)
(* the view DDL parser/rebuilder, the bulk DMF SQL generator and executor, *)
(* the cached metadata fetch layer and the audit log.                      *)
(*                                                                         *)
(* Text is modelled as a sequence of lexemes.  A lexeme is either a single *)
(* character (letters of identifiers, blanks, punctuation) or a keyword    *)
(* of the generated SQL ("SELECT", "AS", "COMMENT", ...).  Python's string *)
(* operations (strip, rstrip, startswith, find, re.search, replace) are    *)
(* modelled on lexeme sequences.                                           *)
(***************************************************************************)
EXTENDS Integers, Sequences, FiniteSets, TLC

VARIABLES
    \* ---- identifier quoting (utils/database.py)
    qPc, qInput, qOnce, qTwice,
    \* ---- the audit table DB_SNOWTOOLS.PUBLIC.DATA_DESCRIPTION_HISTORY
    history,
    \* ---- update_view_descriptions (utils/description_helpers.py)
    vPc,          \* "input" before the call, "done" after it
    vDdl,         \* what GET_DDL returns for the view ("" on error)
    vBody,        \* the SELECT text the view was defined with
    vShape,       \* the header/body boundary shape the DDL was written with
    vCols,        \* columns_df: rows [name, dtype, cur]
    vRaw,         \* the LLM's raw answer per column (None: the call fails)
    vViewDesc,    \* view_description
    vGenCols,     \* generate_columns
    vExecOk,      \* whether the warehouse accepts the rebuilt statement
    vInsertOk,    \* whether each history INSERT is accepted
    vOut,         \* the call's result and intermediate values
    \* ---- bulk DMF configuration (utils/dmf_utils.py, pages/data_quality.py)
    bPc,          \* "configured", "generated" (the SQL is shown), "applied"
    bConfigs,     \* table_configurations, in insertion order
    bSchedule,    \* schedule_config
    bNow,         \* what datetime.now() formats to
    bSql,         \* sql_commands
    bExecFail,    \* the statements (by position) the warehouse rejects
    bInsertFail,  \* the statements whose history INSERT the warehouse rejects
    bOut,         \* the counts, final message and attempts of the executor
    \* ---- the cache of one fetcher (utils/data_fetchers.py)
    cFn,          \* the fetcher
    cCache,       \* per argument value: the entry [age, token, value] or NoEntry
    cToken,       \* st.session_state['last_refresh'] (0 stands for "")
    cClicks,      \* the Refresh clicks so far (each yields a new time stamp)
    cData,        \* the version of the warehouse's metadata
    cLast,        \* the last call of the fetcher, if it was the last step
    \* ---- the pages of one deployment, session after session
    aSetup,       \* st.session_state.setup_complete
    aTable,       \* whether the audit table exists in the warehouse
    aSession,     \* st.session_state['view_desc_<object>'], by object
    aLast,        \* the last operation: the changes the warehouse accepted
                  \* and the records the audit table gained
    \* ---- the metadata fetchers called uncached (utils/data_fetchers.py)
    mPc,          \* "idle" before the call, "done" after it
    mWorld,       \* what the warehouse answers to each query
    mCall,        \* the function called and its schema_name argument
    mOut,         \* what the call returned, or that it raised
    \* ---- the Data Descriptions page used run after run (pages/data_descriptions.py)
    dComments,    \* the comments in the warehouse, by <<schema, object, column>>
    dCached,      \* the comments the cached fetchers return
    dSession,     \* st.session_state['view_desc_<object>'], by object
    dRuns,        \* the description runs so far
    dLast         \* the last step: the arguments and the result of a run

quoteVars == <<qPc, qInput, qOnce, qTwice>>
viewVars == <<vPc, vDdl, vBody, vShape, vCols, vRaw, vViewDesc, vGenCols,
              vExecOk, vInsertOk, vOut>>
bulkVars == <<bPc, bConfigs, bSchedule, bNow, bSql, bExecFail, bInsertFail, bOut>>
cacheVars == <<cFn, cCache, cToken, cClicks, cData, cLast>>
auditVars == <<aSetup, aTable, aSession, aLast>>
metaVars == <<mPc, mWorld, mCall, mOut>>
describeVars == <<dComments, dCached, dSession, dRuns, dLast>>
vars == <<quoteVars, history, viewVars, bulkVars, cacheVars, auditVars, metaVars,
          describeVars>>

(***************************************************************************)
(* Lexemes and Python string helpers                                       *)
(***************************************************************************)
DQ == "\""
SQ == "'"
NL == "\n"
SP == " "
TAB == "\t"

\* Python's None, where a text is expected
None == <<"<None>">>

\* str.upper() on one lexeme
UpperOf ==
    ("a" :> "A") @@ ("b" :> "B") @@ ("c" :> "C") @@ ("d" :> "D") @@
    ("e" :> "E") @@ ("f" :> "F") @@ ("g" :> "G") @@ ("h" :> "H") @@
    ("i" :> "I") @@ ("j" :> "J") @@ ("k" :> "K") @@ ("l" :> "L") @@
    ("m" :> "M") @@ ("n" :> "N") @@ ("o" :> "O") @@ ("p" :> "P") @@
    ("q" :> "Q") @@ ("r" :> "R") @@ ("s" :> "S") @@ ("t" :> "T") @@
    ("u" :> "U") @@ ("v" :> "V") @@ ("w" :> "W") @@ ("x" :> "X") @@
    ("y" :> "Y") @@ ("z" :> "Z") @@
    ("select" :> "SELECT") @@ ("as" :> "AS") @@ ("from" :> "FROM") @@
    ("comment" :> "COMMENT") @@ ("create or replace view" :> "CREATE OR REPLACE VIEW") @@
    ("add data metric function" :> "ADD DATA METRIC FUNCTION") @@
    ("alter table" :> "ALTER TABLE") @@ ("snowflake.core." :> "SNOWFLAKE.CORE.") @@
    ("null_count" :> "NULL_COUNT") @@ ("on" :> "ON")

UpperLex(c) == IF c \in DOMAIN UpperOf THEN UpperOf[c] ELSE c

\* str.upper()
Upper(s) == [i \in 1..Len(s) |-> UpperLex(s[i])]

\* str.startswith(c) / str.endswith(c) for a one-lexeme c
StartsWith(s, c) == Len(s) >= 1 /\ s[1] = c
EndsWith(s, c) == Len(s) >= 1 /\ s[Len(s)] = c

\* c in s
Contains(s, c) == \E i \in 1..Len(s) : s[i] = c

IsWs(c) == c \in {SP, TAB, NL}

Max(S) == CHOOSE x \in S : \A y \in S : y <= x
Min(S) == CHOOSE x \in S : \A y \in S : x <= y

\* str.strip(), str.rstrip(c)
Strip(s) ==
    LET keep == {i \in 1..Len(s) : ~IsWs(s[i])}
    IN  IF keep = {} THEN <<>> ELSE SubSeq(s, Min(keep), Max(keep))

RStrip(s, c) ==
    LET keep == {i \in 1..Len(s) : s[i] # c}
    IN  IF keep = {} THEN <<>> ELSE SubSeq(s, 1, Max(keep))

\* s[n:] for an offset n (the number of lexemes before the slice)
From(s, n) == SubSeq(s, n + 1, Len(s))

\* str.find(c): the offset of the first c in s, or -1
Find(s, c) ==
    LET at == {i \in 1..Len(s) : s[i] = c}
    IN  IF at = {} THEN -1 ELSE Min(at) - 1

\* str.replace("'", "''")
RECURSIVE EscapeQuotes(_)
EscapeQuotes(s) ==
    IF s = <<>> THEN <<>>
    ELSE (IF Head(s) = SQ THEN <<SQ, SQ>> ELSE <<Head(s)>>) \o EscapeQuotes(Tail(s))

\* sep.join(parts)
RECURSIVE Join(_, _)
Join(parts, sep) ==
    IF parts = <<>> THEN <<>>
    ELSE IF Len(parts) = 1 THEN parts[1]
    ELSE parts[1] \o sep \o Join(Tail(parts), sep)

Spaces(n) == [i \in 1..n |-> SP]

\* Python truthiness of an optional text
Truthy(s) == s # None /\ s # <<>>

\* all texts over alphabet A of length at most n
TextsUpTo(A, n) == UNION {[1..k -> A] : k \in 0..n}

(***************************************************************************)
(* utils/database.py: quote_identifier, get_fully_qualified_name           *)
(***************************************************************************)
SpecialChars == {"-", ".", "+", "/", "*", "(", ")", "[", "]", "{", "}"}

ReservedWords ==
    { <<"T","A","B","L","E">>, <<"C","O","L","U","M","N">>, <<"V","I","E","W">>,
      <<"D","A","T","A","B","A","S","E">>, <<"S","C","H","E","M","A">>,
      <<"S","E","L","E","C","T">>, <<"F","R","O","M">>, <<"W","H","E","R","E">> }

\* the variant without the "already has quotes" early return
QuoteIdentifierNoQuotedCheck(identifier) ==
    IF identifier = None \/ identifier = <<>> THEN identifier
    ELSE IF \/ Contains(identifier, SP)
            \/ \E i \in 1..Len(identifier) : identifier[i] \in SpecialChars
            \/ Upper(identifier) \in ReservedWords
         THEN <<DQ>> \o identifier \o <<DQ>>
         ELSE identifier

QuoteIdentifier(identifier) ==
    IF identifier = None \/ identifier = <<>> THEN identifier
    ELSE IF StartsWith(identifier, DQ) /\ EndsWith(identifier, DQ) THEN identifier
    ELSE IF \/ Contains(identifier, SP)
            \/ \E i \in 1..Len(identifier) : identifier[i] \in SpecialChars
            \/ Upper(identifier) \in ReservedWords
         THEN <<DQ>> \o identifier \o <<DQ>>
         ELSE identifier

GetFullyQualifiedName(database, schema, table) ==
    QuoteIdentifier(database) \o <<".">> \o QuoteIdentifier(schema)
        \o <<".">> \o QuoteIdentifier(table)

(***************************************************************************)
(* utils/ai_utils.py: the clean-up generate_column_description applies to  *)
(* the LLM's answer (None when the call raises)                            *)
(***************************************************************************)
GenerateColumnDescription(answer) ==
    IF answer = None THEN None
    ELSE LET description == Strip(answer)
         IN  IF StartsWith(description, DQ) /\ EndsWith(description, DQ)
             THEN SubSeq(description, 2, Len(description) - 1)
             ELSE description

(***************************************************************************)
(* utils/description_helpers.py: log_description_history                   *)
(***************************************************************************)
\* object_name.rsplit('.', 1)
RSplitDot(object_name) ==
    LET dots == {i \in 1..Len(object_name) : object_name[i] = "."}
    IN  <<SubSeq(object_name, 1, Max(dots) - 1), From(object_name, Max(dots))>>

\* lines 36-62: the row the INSERT carries; HISTORY_ID, UPDATED_BY and UPDATED_AT
\* are filled in by the table's defaults
DescriptionRecord(database, schema, object_name, object_type, before_desc, after_desc) ==
    LET isCol == Contains(object_name, ".") /\ object_type = "COLUMN"
        table_name == IF isCol THEN RSplitDot(object_name)[1] ELSE object_name
        column_name == IF isCol THEN RSplitDot(object_name)[2] ELSE None
        fully_qualified_name == GetFullyQualifiedName(database, schema, table_name)
        escaped_desc == IF Truthy(after_desc) THEN EscapeQuotes(after_desc) ELSE <<>>
        sql_executed ==
            IF object_type = "TABLE"
            THEN <<"COMMENT ON TABLE", SP>> \o fully_qualified_name
                    \o <<SP, "IS", SP, SQ>> \o escaped_desc \o <<SQ, ";">>
            ELSE IF object_type = "COLUMN" /\ Truthy(column_name)
            THEN <<"COMMENT ON COLUMN", SP>> \o fully_qualified_name \o <<".">>
                    \o QuoteIdentifier(column_name)
                    \o <<SP, "IS", SP, SQ>> \o escaped_desc \o <<SQ, ";">>
            ELSE <<"--", SP, object_type, SP, "description update">>
    IN  [ database |-> database, schema |-> schema, object_type |-> <<object_type>>,
          object_name |-> table_name,
          column_name |-> IF Truthy(column_name) THEN column_name ELSE None,
          before |-> IF Truthy(before_desc) THEN before_desc ELSE None,
          after |-> IF Truthy(after_desc) THEN after_desc ELSE None,
          sql_executed |-> sql_executed,
          updated_by |-> <<"CURRENT_USER()">> ]

\* the INSERT is attempted once; a failure is caught and only warned about
LogDescriptionHistory(h, insertOk, database, schema, object_name, object_type, before_desc, after_desc) ==
    IF insertOk
    THEN Append(h, DescriptionRecord(database, schema, object_name, object_type,
                                     before_desc, after_desc))
    ELSE h

(***************************************************************************)
(* utils/description_helpers.py: update_view_descriptions                  *)
(***************************************************************************)
\* elements of the regular expressions, over lexemes
Lit(c) == [k |-> "lit", c |-> c]
WsStar == [k |-> "ws*", c |-> ""]
WsPlus == [k |-> "ws+", c |-> ""]
OptComment == [k |-> "comment?", c |-> ""]

as_patterns ==
    << <<Lit(")"), WsStar, OptComment, WsStar, Lit("AS"), WsStar, Lit("(")>>,
       <<Lit(")"), WsStar, Lit("AS"), WsStar, Lit("(")>>,
       <<Lit(")"), WsStar, OptComment, WsStar, Lit("AS"), WsPlus, Lit("SELECT")>>,
       <<Lit(")"), WsStar, Lit("AS"), WsPlus, Lit("SELECT")>>,
       <<Lit(")"), WsStar, Lit("AS"), WsStar, Lit("SELECT")>> >>

\* the first position at or after i that holds no white space
SkipWs(t, i) ==
    LET stop == {j \in i..Len(t) : ~IsWs(t[j])}
    IN  IF stop = {} THEN Len(t) + 1 ELSE Min(stop)

\* COMMENT\s*=\s*['"][^'"]*['"] at position i: the position after it, or 0
CommentEnd(t, i) ==
    IF i > Len(t) \/ t[i] # "COMMENT" THEN 0
    ELSE LET eq == SkipWs(t, i + 1)
         IN  IF eq > Len(t) \/ t[eq] # "=" THEN 0
             ELSE LET open == SkipWs(t, eq + 1)
                  IN  IF open > Len(t) \/ t[open] \notin {SQ, DQ} THEN 0
                      ELSE LET close == {j \in (open + 1)..Len(t) : t[j] \in {SQ, DQ}}
                           IN  IF close = {} THEN 0 ELSE Min(close) + 1

\* pattern pat from its element k on, at position i of t: the position after
\* the match, or 0
RECURSIVE MatchAt(_, _, _, _)
MatchAt(pat, k, t, i) ==
    IF k > Len(pat) THEN i
    ELSE CASE pat[k].k = "lit" ->
                IF i <= Len(t) /\ t[i] = pat[k].c THEN MatchAt(pat, k + 1, t, i + 1) ELSE 0
           [] pat[k].k = "ws*" -> MatchAt(pat, k + 1, t, SkipWs(t, i))
           [] pat[k].k = "ws+" ->
                IF i <= Len(t) /\ IsWs(t[i]) THEN MatchAt(pat, k + 1, t, SkipWs(t, i)) ELSE 0
           [] pat[k].k = "comment?" ->
                LET e == CommentEnd(t, i)
                    with == IF e = 0 THEN 0 ELSE MatchAt(pat, k + 1, t, e)
                IN  IF with # 0 THEN with ELSE MatchAt(pat, k + 1, t, i)

\* re.search(pat, t): the end offset of the leftmost match, or -1
Search(pat, t) ==
    LET starts == {i \in 1..Len(t) : MatchAt(pat, 1, t, i) # 0}
    IN  IF starts = {} THEN -1 ELSE MatchAt(pat, 1, t, Min(starts)) - 1

\* re.search(view_pattern, ddl_upper): CREATE\s+(?:OR\s+REPLACE\s+)?VIEW\s+([^\s\(]+)
ViewMatch(t) ==
    \E i \in 1..Len(t) :
        /\ t[i] \in {"CREATE OR REPLACE VIEW", "CREATE VIEW"}
        /\ i < Len(t) /\ IsWs(t[i + 1])
        /\ SkipWs(t, i + 1) <= Len(t)
        /\ t[SkipWs(t, i + 1)] # "("

\* the patterns are tried in order; the first that matches gives as_match.end()
PatternEndFirst(t) ==
    LET hits == {k \in 1..Len(as_patterns) : Search(as_patterns[k], t) # -1}
    IN  IF hits = {} THEN -1 ELSE Search(as_patterns[Min(hits)], t)

\* ddl_upper.find(' AS ') + 4 (the four characters are three lexemes), or -1
SimpleAsEnd(t) ==
    LET at == {i \in 1..(Len(t) - 2) : t[i] = SP /\ t[i + 1] = "AS" /\ t[i + 2] = SP}
    IN  IF at = {} THEN -1 ELSE Min(at) - 1 + 3

\* lines 165-177: the end of the boundary.  When no pattern matches and ' AS '
\* is found, line 172 builds a stand-in whose end takes no argument; calling
\* it on the instance at line 177 raises TypeError ("raises")
AsMatchEndRaises(t) == PatternEndFirst(t) = -1 /\ SimpleAsEnd(t) # -1

\* the boundary search with a stand-in whose end can be called
AsEndPosSimpleFallback(t) ==
    IF PatternEndFirst(t) = -1 THEN SimpleAsEnd(t) ELSE PatternEndFirst(t)

\* as_end_pos: the end of the first pattern that matches, -1 when line 174
\* returns, -2 when line 177 raises
AsEndPos(t) ==
    LET Outcome(first) == IF first # -1 THEN first
                          ELSE IF SimpleAsEnd(t) # -1 THEN -2 ELSE -1
    IN  CHOOSE end \in { Outcome(first) : first \in {PatternEndFirst(t)} } : TRUE

\* lines 180-192: the text from the first SELECT after the boundary
SelectStatement(original_ddl, as_end_pos) ==
    LET remaining_ddl == From(original_ddl, as_end_pos)
        select_start == Find(Upper(remaining_ddl), "SELECT")
    IN  Strip(IF select_start # -1 THEN From(remaining_ddl, select_start)
              ELSE remaining_ddl)

\* lines 232-239
CleanSelect(select_statement) ==
    LET stripped == Strip(select_statement)
        affirmed == IF StartsWith(Upper(stripped), "SELECT") THEN stripped
                    ELSE <<"SELECT", SP>> \o stripped
    IN  RStrip(RStrip(affirmed, ";"), ")")

\* the dict column_descriptions, in insertion order
DictPut(d, key, val) ==
    IF \E i \in 1..Len(d) : d[i].k = key
    THEN [i \in 1..Len(d) |-> IF d[i].k = key THEN [k |-> key, v |-> val] ELSE d[i]]
    ELSE Append(d, [k |-> key, v |-> val])

\* lines 98-121: one generation per column, kept when it is non-empty
RECURSIVE ColumnDescriptions(_, _, _, _)
ColumnDescriptions(cols, raw, i, acc) ==
    IF i > Len(cols) THEN acc
    ELSE LET new_col_desc == GenerateColumnDescription(raw[i])
         IN  ColumnDescriptions(cols, raw, i + 1,
                 IF Truthy(new_col_desc) THEN DictPut(acc, cols[i].name, new_col_desc)
                 ELSE acc)

CommentedColumn(col_name, comment) ==
    col_name \o <<SP, "COMMENT", SP, SQ>> \o EscapeQuotes(comment) \o <<SQ>>

\* the variant that re-emits a column without its existing comment
ColumnDefinitionDropExisting(row, column_descriptions) ==
    LET hits == {j \in 1..Len(column_descriptions) :
                    Upper(column_descriptions[j].k) = Upper(row.name)}
    IN  IF hits # {}
        THEN LET new_comment == column_descriptions[Min(hits)].v
             IN  IF Truthy(new_comment) THEN <<CommentedColumn(row.name, new_comment)>>
                 ELSE <<>>
        ELSE <<row.name>>

\* lines 199-221: the entries one row of columns_df adds to column_definitions
ColumnDefinition(row, column_descriptions) ==
    LET hits == {j \in 1..Len(column_descriptions) :
                    Upper(column_descriptions[j].k) = Upper(row.name)}
    IN  IF hits # {}
        THEN LET new_comment == column_descriptions[Min(hits)].v
             IN  IF Truthy(new_comment) THEN <<CommentedColumn(row.name, new_comment)>>
                 ELSE <<>>
        ELSE IF Truthy(row.cur) /\ Strip(row.cur) # <<>>
             THEN <<CommentedColumn(row.name, row.cur)>>
             ELSE <<row.name>>

RECURSIVE ColumnDefinitions(_, _, _)
ColumnDefinitions(cols, column_descriptions, i) ==
    IF i > Len(cols) THEN <<>>
    ELSE ColumnDefinition(cols[i], column_descriptions)
            \o ColumnDefinitions(cols, column_descriptions, i + 1)

\* the statement laid out with four blanks before each column and none
\* before the closing parentheses and the SELECT text
NewDdlShallow(fully_qualified_view_name, column_definitions, view_description, clean_select) ==
    LET column_list == Join(column_definitions, <<",", NL>> \o Spaces(4))
        view_comment_clause ==
            IF Truthy(view_description)
            THEN <<SP, "COMMENT", SP, "=", SP, SQ>> \o EscapeQuotes(view_description) \o <<SQ>>
            ELSE <<>>
    IN  <<"CREATE OR REPLACE VIEW", SP>> \o fully_qualified_view_name \o <<SP, "(", NL>>
          \o Spaces(4) \o column_list \o <<NL>>
          \o <<")">> \o view_comment_clause \o <<SP, "AS", SP, "(", NL>>
          \o clean_select \o <<NL>>
          \o <<")">>

\* lines 226 and 241-251
NewDdl(fully_qualified_view_name, column_definitions, view_description, clean_select) ==
    LET column_list == Join(column_definitions, <<",", NL>> \o Spaces(8))
        view_comment_clause ==
            IF Truthy(view_description)
            THEN <<SP, "COMMENT", SP, "=", SP, SQ>> \o EscapeQuotes(view_description) \o <<SQ>>
            ELSE <<>>
    IN  <<"CREATE OR REPLACE VIEW", SP>> \o fully_qualified_view_name \o <<SP, "(", NL>>
          \o Spaces(8) \o column_list \o <<NL>>
          \o Spaces(4) \o <<")">> \o view_comment_clause \o <<SP, "AS", SP, "(", NL>>
          \o Spaces(4) \o clean_select \o <<NL>>
          \o Spaces(4) \o <<")">>

\* lines 282-290: one record for the view description, one per generated column
RECURSIVE LogColumnDescriptions(_, _, _, _, _, _, _)
LogColumnDescriptions(h, insertOk, database, schema, view_name, column_descriptions, j) ==
    IF j > Len(column_descriptions) THEN h
    ELSE LogColumnDescriptions(
            LogDescriptionHistory(h, insertOk[1 + j], database, schema,
                                  view_name \o <<".">> \o column_descriptions[j].k,
                                  "COLUMN", None, column_descriptions[j].v),
            insertOk, database, schema, view_name, column_descriptions, j + 1)

LogViewUpdate(h, insertOk, database, schema, view_name, view_description, column_descriptions) ==
    LogColumnDescriptions(
        IF Truthy(view_description)
        THEN LogDescriptionHistory(h, insertOk[1], database, schema, view_name, "VIEW",
                                   None, view_description)
        ELSE h,
        insertOk, database, schema, view_name, column_descriptions, 1)

NoOutput ==
    [ result |-> FALSE, stage |-> "none", column_descriptions |-> <<>>,
      select_statement |-> None, clean_select |-> None, column_definitions |-> <<>>,
      new_ddl |-> None, executed |-> <<>>, history |-> <<>> ]

\* the whole call: its return value, what it built, the statements it sent to
\* the warehouse and the audit table after it
UpdateViewDescriptions(h, database, schema, view_name, original_ddl, columns_df, raw, view_description, generate_columns, execOk, insertOk) ==
    LET column_descriptions ==
            IF generate_columns THEN ColumnDescriptions(columns_df, raw, 1, <<>>) ELSE <<>>
        ddl_upper == Upper(original_ddl)
        as_end_pos == AsEndPos(ddl_upper)
        select_statement == SelectStatement(original_ddl, as_end_pos)
        column_definitions == ColumnDefinitions(columns_df, column_descriptions, 1)
        clean_select == CleanSelect(select_statement)
        new_ddl == NewDdl(GetFullyQualifiedName(database, schema, view_name),
                          column_definitions, view_description, clean_select)
        abort(stage) == [NoOutput EXCEPT !.stage = stage, !.history = h,
                                         !.column_descriptions = column_descriptions]
    IN  IF original_ddl = <<>> THEN [abort("no ddl") EXCEPT !.column_descriptions = <<>>]
        ELSE IF ~Truthy(view_description) /\ column_descriptions = <<>> THEN abort("nothing to update")
        ELSE IF ~ViewMatch(ddl_upper) THEN abort("no view name")
        ELSE IF as_end_pos = -2 THEN abort("error")
        ELSE IF as_end_pos = -1 THEN abort("no AS clause")
        ELSE [ result |-> execOk,
               stage |-> IF execOk THEN "recreated" ELSE "execution failed",
               column_descriptions |-> column_descriptions,
               select_statement |-> select_statement,
               clean_select |-> clean_select,
               column_definitions |-> column_definitions,
               new_ddl |-> new_ddl,
               executed |-> IF execOk THEN <<new_ddl>> ELSE <<>>,
               history |-> IF execOk
                           THEN LogViewUpdate(h, insertOk, database, schema, view_name,
                                              view_description, column_descriptions)
                           ELSE h ]

(***************************************************************************)
(* utils/dmf_utils.py: generate_bulk_dmf_sql                               *)
(*                                                                         *)
(* A table's config is [row_count, freshness, freshness_column,            *)
(* column_dmfs]: row_count and freshness are "on", "off" or "absent" (the  *)
(* key is missing from table_dmfs), freshness_column is None when the key  *)
(* is missing, column_dmfs lists [col, dmfs] in insertion order.           *)
(* table_configs lists [name, config] in insertion order.                  *)
(***************************************************************************)
\* str.split(c)
RECURSIVE Split(_, _)
Split(s, c) ==
    IF Find(s, c) = -1 THEN <<s>>
    ELSE <<SubSeq(s, 1, Find(s, c))>> \o Split(From(s, Find(s, c) + 1), c)

Comment(text) == <<"--", SP>> \o text

AddDmfStatement(full_table_name, dmf_key, quoted_col) ==
    <<"ALTER TABLE", SP>> \o full_table_name
        \o <<SP, "ADD DATA METRIC FUNCTION", SP, "SNOWFLAKE.CORE.", dmf_key, SP, "ON", SP, "(">>
        \o quoted_col \o <<")", ";">>

\* the variant that walks the columns last to first
ColumnDmfLinesReversed(full_table_name, column_dmfs) ==
    IF column_dmfs = <<>> THEN <<>>
    ELSE <<<<>>, Comment(<<"Column-level DMFs">>)>> \o
         Join([i \in 1..Len(column_dmfs) |->
                 [j \in 1..Len(column_dmfs[Len(column_dmfs) + 1 - i].dmfs) |->
                     AddDmfStatement(full_table_name,
                                     column_dmfs[Len(column_dmfs) + 1 - i].dmfs[j],
                                     QuoteIdentifier(column_dmfs[Len(column_dmfs) + 1 - i].col))]],
              <<>>)

\* lines 366-373
ColumnDmfLines(full_table_name, column_dmfs) ==
    IF column_dmfs = <<>> THEN <<>>
    ELSE <<<<>>, Comment(<<"Column-level DMFs">>)>> \o
         Join([i \in 1..Len(column_dmfs) |->
                 [j \in 1..Len(column_dmfs[i].dmfs) |->
                     AddDmfStatement(full_table_name, column_dmfs[i].dmfs[j],
                                     QuoteIdentifier(column_dmfs[i].col))]],
              <<>>)

\* the lines of one table with the schedule set after the metrics are added
TableLinesScheduleLast(database, schema, schedule_config, table_name, config) ==
    LET full_table_name == GetFullyQualifiedName(database, schema, table_name)
    IN  << Comment(<<"Configuration for", SP>> \o table_name), <<>> >>
        \o (IF config.row_count = "on"
            THEN <<AddDmfStatement(full_table_name, "ROW_COUNT", <<>>)>> ELSE <<>>)
        \o (IF config.freshness = "on" /\ config.freshness_column # None
            THEN <<AddDmfStatement(full_table_name, "FRESHNESS",
                                   QuoteIdentifier(config.freshness_column))>>
            ELSE <<>>)
        \o ColumnDmfLines(full_table_name, config.column_dmfs)
        \o << <<"ALTER TABLE", SP>> \o full_table_name
                 \o <<SP, "SET DATA_METRIC_SCHEDULE", SP, "=", SP, SQ,
                      schedule_config.schedule_expression, SQ, ";">>,
              <<>>, <<>> >>

\* lines 343-375: the lines one table adds
TableLines(database, schema, schedule_config, table_name, config) ==
    LET full_table_name == GetFullyQualifiedName(database, schema, table_name)
    IN  << Comment(<<"========================================">>),
           Comment(<<"Configuration for", SP>> \o table_name),
           Comment(<<"========================================">>),
           <<>>,
           Comment(<<"Step 1: Set monitoring schedule">>),
           <<"ALTER TABLE", SP>> \o full_table_name
               \o <<SP, "SET DATA_METRIC_SCHEDULE", SP, "=", SP, SQ,
                    schedule_config.schedule_expression, SQ, ";">>,
           <<>>,
           Comment(<<"Step 2: Add Data Metric Functions">>) >>
        \o (IF config.row_count = "on"
            THEN <<AddDmfStatement(full_table_name, "ROW_COUNT", <<>>)>> ELSE <<>>)
        \o (IF config.freshness = "on" /\ config.freshness_column # None
            THEN <<AddDmfStatement(full_table_name, "FRESHNESS",
                                   QuoteIdentifier(config.freshness_column))>>
            ELSE <<>>)
        \o ColumnDmfLines(full_table_name, config.column_dmfs)
        \o <<<<>>, <<>>>>

\* lines 331-383; now is the text datetime.now() formats to
GenerateBulkDmfSql(database, schema, schedule_config, table_configs, now) ==
    Join(<< Comment(<<"Bulk DMF Configuration for", SP, ToString(Len(table_configs)),
                      SP, "table(s)">>),
            Comment(<<"Database:", SP>> \o database),
            Comment(<<"Schema:", SP>> \o schema),
            Comment(<<"Schedule:", SP, schedule_config.description>>),
            Comment(<<"Generated:", SP, now>>),
            <<>> >>
         \o Join([t \in 1..Len(table_configs) |->
                    TableLines(database, schema, schedule_config,
                               table_configs[t].name, table_configs[t].config)],
                 <<>>)
         \o << Comment(<<"View results with:">>),
               Comment(<<"SELECT * FROM SNOWFLAKE.LOCAL.DATA_QUALITY_MONITORING_RESULTS">>),
               Comment(<<"ORDER BY MEASUREMENT_TIME DESC;">>) >>,
         <<NL>>)

(***************************************************************************)
(* utils/setup.py: log_dmf_history; utils/dmf_utils.py: log_dmf_execution  *)
(***************************************************************************)
\* lines 153-200 with action = "ADDED": the row the INSERT carries
DmfRecord(database, schema, table_name, dmf_type, column_name) ==
    [ database |-> database, schema |-> schema,
      object_type |-> <<"DMF_", dmf_type>>
                        \o (IF Truthy(column_name) THEN <<"_COLUMN">> ELSE <<>>),
      object_name |-> table_name,
      column_name |-> IF Truthy(column_name) THEN column_name ELSE None,
      before |-> None,
      after |-> <<"Added", SP, dmf_type, SP, "data quality metric">>
                    \o (IF Truthy(column_name) THEN <<SP, "to column", SP>> \o column_name
                        ELSE <<>>),
      sql_executed |-> None,
      updated_by |-> <<"Streamlit App">> ]

\* the INSERT is attempted once; a failure is caught and only warned about
LogDmfHistory(h, insertOk, database, schema, table_name, dmf_type, column_name) ==
    IF insertOk THEN Append(h, DmfRecord(database, schema, table_name, dmf_type, column_name))
    ELSE h

\* "?[^".\s]+"? : the name inside one dotted part, or None
NamePart(part) ==
    LET a == IF StartsWith(part, DQ) THEN Tail(part) ELSE part
        b == IF EndsWith(a, DQ) THEN SubSeq(a, 1, Len(a) - 1) ELSE a
    IN  IF b # <<>> /\ \A i \in 1..Len(b) : b[i] \notin {DQ, "."} /\ ~IsWs(b[i])
        THEN b ELSE None

\* line 441, on the upper-cased statement: the last of up to three dotted
\* parts between ALTER TABLE and ADD, or UNKNOWN_TABLE
DmfTableName(sql_upper) ==
    LET unknown == <<"UNKNOWN_TABLE">>
        at == Find(sql_upper, "ALTER TABLE")
        first == SkipWs(sql_upper, at + 2)
        stop == {i \in first..Len(sql_upper) : IsWs(sql_upper[i])}
        parts == Split(SubSeq(sql_upper, first, Min(stop) - 1), ".")
    IN  IF at = -1 \/ at + 2 > Len(sql_upper) \/ ~IsWs(sql_upper[at + 2]) \/ stop = {}
        THEN unknown
        ELSE IF SkipWs(sql_upper, Min(stop)) > Len(sql_upper) THEN unknown
        ELSE IF sql_upper[SkipWs(sql_upper, Min(stop))] # "ADD DATA METRIC FUNCTION"
        THEN unknown
        ELSE IF Len(parts) > 3 \/ \E p \in 1..Len(parts) : NamePart(parts[p]) = None
        THEN unknown
        ELSE NamePart(parts[Len(parts)])

\* line 445: SNOWFLAKE\.CORE\.(\w+) on the upper-cased statement
DmfType(sql_upper) ==
    LET at == Find(sql_upper, "SNOWFLAKE.CORE.")
    IN  IF at = -1 \/ at + 2 > Len(sql_upper) THEN "UNKNOWN_DMF" ELSE sql_upper[at + 2]

\* str.strip(c) for a one-lexeme c
StripLex(s, c) ==
    LET keep == {i \in 1..Len(s) : s[i] # c}
    IN  IF keep = {} THEN <<>> ELSE SubSeq(s, Min(keep), Max(keep))

\* lines 449-452: ON \(([^)]+)\) on the statement as written
DmfColumnName(sql_line) ==
    LET opens == {i \in 1..(Len(sql_line) - 3) :
                    /\ sql_line[i] = "ON" /\ sql_line[i + 1] = SP /\ sql_line[i + 2] = "("
                    /\ sql_line[i + 3] # ")"
                    /\ \E j \in (i + 4)..Len(sql_line) : sql_line[j] = ")"}
        i == Min(opens)
        close == Min({j \in (i + 4)..Len(sql_line) : sql_line[j] = ")"})
        inner == SubSeq(sql_line, i + 3, close - 1)
    IN  IF opens = {} \/ Strip(inner) = <<>> THEN None
        ELSE StripLex(StripLex(Strip(inner), DQ), SQ)

\* lines 437-460
LogDmfExecution(h, insertOk, database, schema, sql_line) ==
    LogDmfHistory(h, insertOk, database, schema, DmfTableName(Upper(sql_line)),
                  DmfType(Upper(sql_line)), DmfColumnName(sql_line))

(***************************************************************************)
(* utils/dmf_utils.py: execute_bulk_dmf_configuration                      *)
(***************************************************************************)
\* line 388: the stripped lines that are neither blank nor comments
SqlLines(sql_commands) ==
    LET lines == Split(sql_commands, NL)
        Executable(line) == Strip(line) # <<>> /\ ~StartsWith(Strip(line), "--")
        kept == SelectSeq(lines, Executable)
    IN  [i \in 1..Len(kept) |-> Strip(kept[i])]

\* utils/database.py lines 108-120: an exception at the warehouse is caught
\* and reported as False
ExecuteCommentSql(accepted) == accepted

\* the variant that gives up at the first statement that fails
RECURSIVE ExecuteFromStopAtFailure(_, _, _, _, _, _, _)
ExecuteFromStopAtFailure(sql_lines, i, run, execOk, insertOk, database, schema) ==
    IF i > Len(sql_lines) THEN run
    ELSE LET sql_line == sql_lines[i]
             tried == [run EXCEPT !.attempted = Append(@, sql_line)]
         IN  IF ExecuteCommentSql(execOk[i])
             THEN ExecuteFromStopAtFailure(
                    sql_lines, i + 1,
                    [tried EXCEPT
                        !.success_count = @ + 1,
                        !.history =
                            IF Contains(Upper(sql_line), "ADD DATA METRIC FUNCTION")
                            THEN LogDmfExecution(@, insertOk[i], database, schema, sql_line)
                            ELSE @],
                    execOk, insertOk, database, schema)
             ELSE [tried EXCEPT !.error_count = @ + 1]

\* the variant that logs every statement that succeeds
RECURSIVE ExecuteFromLogAll(_, _, _, _, _, _, _)
ExecuteFromLogAll(sql_lines, i, run, execOk, insertOk, database, schema) ==
    IF i > Len(sql_lines) THEN run
    ELSE LET sql_line == sql_lines[i]
             tried == [run EXCEPT !.attempted = Append(@, sql_line)]
             after ==
                IF ExecuteCommentSql(execOk[i])
                THEN [tried EXCEPT
                        !.success_count = @ + 1,
                        !.history = LogDmfExecution(@, insertOk[i], database, schema, sql_line)]
                ELSE [tried EXCEPT !.error_count = @ + 1]
         IN  ExecuteFromLogAll(sql_lines, i + 1, after, execOk, insertOk, database, schema)

\* lines 403-422: statement i and those after it; run is [success_count,
\* error_count, attempted, history]
RECURSIVE ExecuteFrom(_, _, _, _, _, _, _)
ExecuteFrom(sql_lines, i, run, execOk, insertOk, database, schema) ==
    IF i > Len(sql_lines) THEN run
    ELSE LET sql_line == sql_lines[i]
             tried == [run EXCEPT !.attempted = Append(@, sql_line)]
             after ==
                IF ExecuteCommentSql(execOk[i])
                THEN [tried EXCEPT
                        !.success_count = @ + 1,
                        !.history =
                            IF Contains(Upper(sql_line), "ADD DATA METRIC FUNCTION")
                            THEN LogDmfExecution(@, insertOk[i], database, schema, sql_line)
                            ELSE @]
                ELSE [tried EXCEPT !.error_count = @ + 1]
         IN  ExecuteFrom(sql_lines, i + 1, after, execOk, insertOk, database, schema)

\* the call with a final message that looks at the successes alone
ExecuteBulkReportBySuccess(h, database, schema, sql_commands, execOk, insertOk) ==
    LET sql_lines == SqlLines(sql_commands)
        start == [success_count |-> 0, error_count |-> 0, attempted |-> <<>>, history |-> h]
        run == ExecuteFrom(sql_lines, 1, start, execOk, insertOk, database, schema)
    IN  [ status |-> IF run.success_count > 0 THEN "success" ELSE "failed",
          total_commands |-> Len(sql_lines),
          success_count |-> run.success_count,
          error_count |-> run.error_count,
          attempted |-> run.attempted,
          history |-> run.history ]

\* lines 385-435: the whole call; status is the final message
ExecuteBulkDmfConfiguration(h, database, schema, sql_commands, execOk, insertOk) ==
    LET sql_lines == SqlLines(sql_commands)
        start == [success_count |-> 0, error_count |-> 0, attempted |-> <<>>, history |-> h]
        run == ExecuteFrom(sql_lines, 1, start, execOk, insertOk, database, schema)
    IN  IF sql_lines = <<>>
        THEN [ status |-> "no commands", total_commands |-> 0, success_count |-> 0,
               error_count |-> 0, attempted |-> <<>>, history |-> h ]
        ELSE [ status |-> IF run.error_count = 0 THEN "success"
                          ELSE IF run.success_count > 0 THEN "partial success"
                          ELSE "failed",
               total_commands |-> Len(sql_lines),
               success_count |-> run.success_count,
               error_count |-> run.error_count,
               attempted |-> run.attempted,
               history |-> run.history ]

(***************************************************************************)
(* utils/description_helpers.py: generate_descriptions_for_objects         *)
(***************************************************************************)
\* dict.get(k, default), and a cached fetch that finds nothing
Lookup(f, k, default) == IF k \in DOMAIN f THEN f[k] ELSE default

\* st.session_state[k] = v  and  del st.session_state[k]
SessionPut(s, k, v) == [x \in (DOMAIN s) \cup {k} |-> IF x = k THEN v ELSE s[x]]
SessionDel(s, k) == [x \in (DOMAIN s) \ {k} |-> s[x]]

\* utils/ai_utils.py lines 25-116: the answer stripped and unquoted, None on error
GenerateTableDescription(answer) == GenerateColumnDescription(answer)

\* one change of a comment, a metric or a contact that the warehouse accepted
Change(kind, schema, object, column, value) ==
    [ kind |-> kind, schema |-> schema, object |-> object, column |-> column,
      value |-> value ]

\* what a successful recreation of a view changed: the view's comment when
\* one was given, and the comment of every column that got a description
ViewChanges(schema, view_name, view_description, column_descriptions) ==
    (IF Truthy(view_description)
     THEN <<Change("VIEW", schema, view_name, None, view_description)>> ELSE <<>>)
    \o [j \in 1..Len(column_descriptions) |->
            Change("COLUMN", schema, view_name, column_descriptions[j].k,
                   column_descriptions[j].v)]

\* lines 445-481: the columns of a base table, from the j-th on
RECURSIVE DescribeTableColumns(_, _, _, _, _, _, _)
DescribeTableColumns(run, database, obj_schema, obj_name, columns_df, oracle, j) ==
    IF j > Len(columns_df) THEN run
    ELSE LET col_name == columns_df[j].name
             key == <<obj_schema, obj_name, col_name>>
             new_col_desc == GenerateColumnDescription(Lookup(oracle.answer, key, None))
             next ==
                IF Truthy(new_col_desc) /\ key \notin oracle.execFail
                THEN [run EXCEPT
                        !.total_updates = @ + 1,
                        !.applied = Append(@, Change("COLUMN", obj_schema, obj_name,
                                                     col_name, new_col_desc)),
                        !.history = LogDescriptionHistory(
                                        @, key \notin oracle.insertFail, database, obj_schema,
                                        obj_name \o <<".">> \o col_name, "COLUMN",
                                        columns_df[j].cur, new_col_desc)]
                ELSE run
         IN  DescribeTableColumns(next, database, obj_schema, obj_name, columns_df,
                                  oracle, j + 1)

\* the one member of a singleton: The({e(x) : x \in {v}}) is e with x
\* standing for the value of v, computed once
The(S) == CHOOSE x \in S : TRUE

\* lines 333-391: the description generated for the object itself: a table's
\* is applied and logged, a view's is kept in the session.  The oracle holds
\* the LLM's answers and the statements the warehouse rejects, both keyed by
\* <<schema, object, column>>
GenerateObjectDescription(run, database, obj_schema, obj_name, current_obj, oracle) ==
    LET key == <<obj_schema, obj_name, <<>>>>
        new_desc == GenerateTableDescription(Lookup(oracle.answer, key, None))
    IN  IF ~Truthy(new_desc) THEN run
        ELSE IF current_obj.OBJECT_TYPE = "BASE TABLE"
        THEN IF key \notin oracle.execFail
             THEN [run EXCEPT
                    !.total_updates = @ + 1,
                    !.applied = Append(@, Change("TABLE", obj_schema, obj_name,
                                                 None, new_desc)),
                    !.history = LogDescriptionHistory(
                                    @, key \notin oracle.insertFail, database, obj_schema,
                                    obj_name, "TABLE",
                                    current_obj.CURRENT_DESCRIPTION, new_desc)]
             ELSE run
        ELSE [run EXCEPT !.session = SessionPut(@, obj_name, new_desc)]

\* lines 393-407 ('table': the stored description alone, counted as one
\* update) and lines 425-442 ('column' and 'both': the columns as well,
\* counted as the number of columns, plus one for a stored description)
RecreateView(run, database, obj_schema, obj_name, columns_df, view_desc, generate_columns, world, oracle) ==
    The({ IF upd.result
          THEN [run EXCEPT
                  !.total_updates =
                        IF generate_columns
                        THEN @ + Len(columns_df) + (IF Truthy(view_desc) THEN 1 ELSE 0)
                        ELSE @ + 1,
                  !.session = IF Truthy(view_desc) THEN SessionDel(@, obj_name) ELSE @,
                  !.applied = @ \o ViewChanges(obj_schema, obj_name, view_desc,
                                               upd.column_descriptions),
                  !.history = upd.history]
          ELSE run :
          upd \in { UpdateViewDescriptions(
                        run.history, database, obj_schema, obj_name,
                        Lookup(world.ddl, <<obj_schema, obj_name>>, <<>>), columns_df,
                        [j \in 1..Len(columns_df) |->
                            Lookup(oracle.answer,
                                   <<obj_schema, obj_name, columns_df[j].name>>, None)],
                        view_desc, generate_columns,
                        <<obj_schema, obj_name, <<>>>> \notin oracle.execFail,
                        [k \in 1..(Len(columns_df) + 1) |->
                            <<obj_schema, obj_name, <<>>>> \notin oracle.insertFail]) } })

\* lines 317-481: one pass of the loop over the selected objects
DescribeObject(run, database, schema, obj_name, selected_rows, generation_type, world, oracle) ==
    LET IsRow(r) == r.OBJECT_NAME = obj_name
        obj_row == SelectSeq(selected_rows.rows, IsRow)
        obj_schema == IF Truthy(schema) THEN schema ELSE obj_row[1].SCHEMA_NAME
        current_obj == SelectSeq(Lookup(world.tables, obj_schema, <<>>), IsRow)
        columns_df == Lookup(world.columns, <<obj_schema, obj_name>>, <<>>)
        Rest(generated, view_desc) ==
            IF current_obj[1].OBJECT_TYPE = "VIEW"
            THEN IF generation_type = "table" /\ ~Truthy(view_desc) THEN generated
                 ELSE RecreateView(generated, database, obj_schema, obj_name, columns_df,
                                   view_desc, generation_type # "table", world, oracle)
            ELSE IF generation_type \in {"column", "both"}
            THEN DescribeTableColumns(generated, database, obj_schema, obj_name,
                                      columns_df, oracle, 1)
            ELSE generated
    IN  IF ~Truthy(schema) /\ (obj_row = <<>> \/ ~selected_rows.has_schema)
        THEN [run EXCEPT !.skipped = Append(@, obj_name)]
        ELSE IF current_obj = <<>>
        THEN [run EXCEPT !.skipped = Append(@, obj_name)]
        ELSE The({ Rest(generated, Lookup(generated.session, obj_name, None)) :
                   generated \in { IF generation_type \in {"table", "both"}
                                   THEN GenerateObjectDescription(
                                            run, database, obj_schema, obj_name,
                                            current_obj[1], oracle)
                                   ELSE run } })

\* the loop left at the first object it cannot place (break for continue)
RECURSIVE DescribeObjectsFromStopAtSkip(_, _, _, _, _, _, _, _, _)
DescribeObjectsFromStopAtSkip(run, database, schema, objects, selected_rows, generation_type, world, oracle, i) ==
    IF i > Len(objects) THEN run
    ELSE The({ IF Len(next.skipped) > Len(run.skipped) THEN next
               ELSE DescribeObjectsFromStopAtSkip(next, database, schema, objects,
                                                  selected_rows, generation_type, world,
                                                  oracle, i + 1) :
               next \in { DescribeObject(run, database, schema, objects[i], selected_rows,
                                         generation_type, world, oracle) } })

RECURSIVE DescribeObjectsFrom(_, _, _, _, _, _, _, _, _)
DescribeObjectsFrom(run, database, schema, objects, selected_rows, generation_type, world, oracle, i) ==
    IF i > Len(objects) THEN run
    ELSE The({ DescribeObjectsFrom(next, database, schema, objects, selected_rows,
                                   generation_type, world, oracle, i + 1) :
               next \in { DescribeObject(run, database, schema, objects[i], selected_rows,
                                         generation_type, world, oracle) } })

\* the whole call: the audit table and the session after it, the count it
\* reports, the changes the warehouse accepted and the objects it skipped
GenerateDescriptionsForObjects(h, session, database, schema, objects, selected_rows, generation_type, world, oracle) ==
    DescribeObjectsFrom(
        [ history |-> h, session |-> session, total_updates |-> 0, applied |-> <<>>,
          skipped |-> <<>> ],
        database, schema, objects, selected_rows, generation_type, world, oracle, 1)

(***************************************************************************)
(* utils/setup.py: setup_database_objects and log_contact_history;         *)
(* pages/data_contacts.py: "Apply Contact Assignments"                     *)
(***************************************************************************)
\* CREATE OR REPLACE TABLE in the place of CREATE TABLE IF NOT EXISTS
CreateOrReplaceHistoryTable(h, exists) == <<>>

\* lines 61-75 and 98: CREATE TABLE IF NOT EXISTS leaves an existing table
\* and its rows alone
CreateHistoryTableIfNotExists(h, exists) == IF exists THEN h ELSE <<>>

\* lines 31-113: the result, and the audit table after the call
SetupDatabaseObjects(h, exists, ok) ==
    IF ok
    THEN [ result |-> TRUE, exists |-> TRUE,
           history |-> CreateHistoryTableIfNotExists(h, exists) ]
    ELSE [ result |-> FALSE, exists |-> exists, history |-> h ]

\* lines 205-240: the row the INSERT writes
ContactRecord(database, schema, table_name, contact_type, old_contact, new_contact) ==
    LET value(c) == IF Truthy(c) /\ c # <<"None">> THEN c ELSE None
    IN  [ database |-> database, schema |-> schema,
          object_type |-> <<"CONTACT_", contact_type>>,
          object_name |-> table_name,
          column_name |-> None,
          before |-> value(old_contact),
          after |-> value(new_contact),
          sql_executed |-> None,
          updated_by |-> <<"Streamlit App">> ]

LogContactHistory(h, insertOk, database, schema, table_name, contact_type, old_contact, new_contact) ==
    IF insertOk
    THEN Append(h, ContactRecord(database, schema, table_name, contact_type,
                                 old_contact, new_contact))
    ELSE h

\* pages/data_contacts.py lines 255-261: the purposes that get a contact, in
\* the statement's order; contacts is <<steward, support, approver>>
ContactPurposes == <<"STEWARD", "SUPPORT", "ACCESS_APPROVAL">>
ContactAssignments(contacts) ==
    LET IsSet(i) == Truthy(contacts[i]) /\ contacts[i] # <<"None">>
    IN  SelectSeq(<<1, 2, 3>>, IsSet)

\* lines 313-323: the records of one table whose statement was accepted
RECURSIVE LogContactsOf(_, _, _, _, _, _, _)
LogContactsOf(h, insertOk, database, schema, table_name, contacts, i) ==
    IF i > Len(ContactPurposes) THEN h
    ELSE LogContactsOf(
            IF contacts[i] # <<"None">>
            THEN LogContactHistory(h, insertOk, database, schema, table_name,
                                   ContactPurposes[i], <<"None">>, contacts[i])
            ELSE h,
            insertOk, database, schema, table_name, contacts, i + 1)

\* lines 300-331: the loop over the selected tables, from the i-th on
RECURSIVE ApplyContactsFrom(_, _, _, _, _, _, _, _)
ApplyContactsFrom(run, database, schema, selected_tables, contacts, execFail, insertOk, i) ==
    IF i > Len(selected_tables) THEN run
    ELSE LET table_name == selected_tables[i]
             next ==
                IF table_name \notin execFail
                THEN [run EXCEPT
                        !.success_count = @ + 1,
                        !.applied = @ \o [k \in 1..Len(ContactAssignments(contacts)) |->
                                            Change("CONTACT", schema, table_name,
                                                   <<ContactPurposes[ContactAssignments(contacts)[k]]>>,
                                                   contacts[ContactAssignments(contacts)[k]])],
                        !.history = LogContactsOf(@, insertOk, database, schema,
                                                  table_name, contacts, 1)]
                ELSE [run EXCEPT !.error_count = @ + 1]
         IN  ApplyContactsFrom(next, database, schema, selected_tables, contacts,
                               execFail, insertOk, i + 1)

ApplyContacts(h, database, schema, selected_tables, contacts, execFail, insertOk) ==
    ApplyContactsFrom(
        [ history |-> h, success_count |-> 0, error_count |-> 0, applied |-> <<>> ],
        database, schema, selected_tables, contacts, execFail, insertOk, 1)

(***************************************************************************)
(* utils/data_fetchers.py: the metadata fetchers.  A query's outcome is    *)
(* [ok, rows]; a call's is [raised, kind, columns, value, messages], with  *)
(* kind "list", "frame", "dict", or "none" for Python's None.              *)
(***************************************************************************)
Returned(kind, columns, value, messages) ==
    [ raised |-> FALSE, kind |-> kind, columns |-> columns, value |-> value,
      messages |-> messages ]

\* an exception that leaves the function
Raised(messages) ==
    [ raised |-> TRUE, kind |-> "none", columns |-> <<>>, value |-> <<>>,
      messages |-> messages ]

\* lines 11-36
GetDatabases(world) ==
    IF world.databases.ok
    THEN Returned("list", <<>>,
                  SelectSeq(world.databases.rows,
                            LAMBDA db : db \notin {"SNOWFLAKE", "INFORMATION_SCHEMA"}),
                  <<>>)
    ELSE Returned("list", <<>>, <<>>, <<"error">>)

\* lines 39-88: the function ends without a return statement when the first
\* query succeeds and lists no schema
GetSchemas(world) ==
    IF world.schemata.ok
    THEN IF world.schemata.rows # <<>>
         THEN Returned("list", <<>>, world.schemata.rows, <<>>)
         ELSE Returned("none", <<>>, <<>>, <<>>)
    ELSE IF world.show_schemas.ok
    THEN Returned("list", <<>>,
                  SelectSeq(world.show_schemas.rows,
                            LAMBDA schema : schema # "INFORMATION_SCHEMA"),
                  <<"warning">>)
    ELSE Returned("list", <<>>, <<>>, <<"warning", "error">>)

\* lines 146-157, 177-188 and 217-228: the row of one object
TableData(name, table_type, comment, schema_name, current_schema) ==
    [ OBJECT_NAME |-> name, OBJECT_TYPE |-> table_type,
      CURRENT_DESCRIPTION |-> IF comment # "" THEN comment ELSE "<None>",
      HAS_DESCRIPTION |-> IF comment # "" /\ comment # " " THEN "Yes" ELSE "No",
      SCHEMA_NAME |-> IF schema_name # "" THEN "<absent>" ELSE current_schema ]

\* lines 104-230: the rows one schema adds, and the messages it leaves.  The
\* catalog holds the schema's objects as [name, type, comment, accessible,
\* secure]: accessible is the outcome of SELECT 1 ... LIMIT 0 on a view
SchemaObjects(world, schema_name, current_schema) ==
    LET Row(o) == TableData(o.name, o.type, o.comment, schema_name, current_schema)
        Rows(objs) == [i \in 1..Len(objs) |-> Row(objs[i])]
        IsTable(o) == o.type = "BASE TABLE"
        IsView(o) == o.type = "VIEW"
        Listed(o) == o.name # "" /\ (IsView(o) => o.accessible)
        NotSecure(o) == IsView(o) /\ o.name # "" /\ ~o.secure
        Named(o) == IsTable(o) /\ o.name # ""
    IN  IF world.tables_ok
        THEN [rows |-> Rows(SelectSeq(world.catalog, Listed)), messages |-> <<>>]
        ELSE IF ~world.show_tables_ok
        THEN [rows |-> <<>>, messages |-> <<"warning">>]
        ELSE IF ~world.show_views_ok
        THEN [rows |-> Rows(SelectSeq(world.catalog, Named)), messages |-> <<"warning">>]
        ELSE [rows |-> Rows(SelectSeq(world.catalog, Named))
                       \o Rows(SelectSeq(world.catalog, NotSecure)),
              messages |-> <<"warning">>]

\* DataFrame.sort_values on SCHEMA_NAME, OBJECT_NAME (lines 234-237)
RECURSIVE SortValues(_)
SortValues(rows) ==
    IF rows = <<>> THEN <<>>
    ELSE LET NameOrder == <<"", "<absent>", "A", "S1", "S2", "S3", "T", "V", "W", "X">>
             NameRank(n) == CHOOSE k \in 1..Len(NameOrder) : NameOrder[k] = n
             Before(a, b) ==
                \/ NameRank(a.SCHEMA_NAME) < NameRank(b.SCHEMA_NAME)
                \/ /\ a.SCHEMA_NAME = b.SCHEMA_NAME
                   /\ NameRank(a.OBJECT_NAME) < NameRank(b.OBJECT_NAME)
             i == CHOOSE k \in 1..Len(rows) :
                    \A j \in 1..Len(rows) :
                        ~Before(rows[j], rows[k]) /\ (rows[j] = rows[k] => k <= j)
         IN  <<rows[i]>> \o SortValues([j \in 1..(Len(rows) - 1) |->
                                            IF j < i THEN rows[j] ELSE rows[j + 1]])

\* lines 91-249
GetTablesAndViews(world, schema_name) ==
    LET columns ==
            (IF schema_name = "" THEN <<"SCHEMA_NAME">> ELSE <<>>)
            \o <<"OBJECT_NAME", "OBJECT_TYPE", "CURRENT_DESCRIPTION", "HAS_DESCRIPTION">>
        schemas == IF schema_name # "" THEN Returned("list", <<>>, <<schema_name>>, <<>>)
                   ELSE GetSchemas(world)
        per_schema == [i \in 1..Len(schemas.value) |->
                            SchemaObjects(world, schema_name, schemas.value[i])]
        RECURSIVE Gather(_, _)
        Gather(i, field) ==
            IF i > Len(per_schema) THEN <<>>
            ELSE per_schema[i][field] \o Gather(i + 1, field)
    IN  IF schemas.kind # "list"
        THEN Returned("frame", columns, <<>>, schemas.messages \o <<"error">>)
        ELSE Returned("frame", columns, SortValues(Gather(1, "rows")),
                      schemas.messages \o Gather(1, "messages"))

\* lines 285-290 and 340-345: the row of one column
ColumnData(column_name, data_type, comment) ==
    [ COLUMN_NAME |-> column_name, DATA_TYPE |-> data_type,
      CURRENT_DESCRIPTION |-> IF comment \in {"", "null", "NULL"} THEN "<None>" ELSE comment,
      HAS_DESCRIPTION |-> IF comment \notin {"", "null", "NULL", " "} THEN "Yes" ELSE "No" ]

\* lines 299-353 with the second try statement taken away
DescTableUnguarded(world, columns, messages) ==
    IF ~world.desc.ok THEN Raised(messages)
    ELSE Returned("frame", columns,
                  [i \in 1..Len(world.desc.rows) |->
                        ColumnData(world.desc.rows[i].name, world.desc.rows[i].type,
                                   world.desc.rows[i].comment)],
                  messages \o <<"info", "info">>)

\* lines 299-353: the DESC TABLE fallback
DescTable(world, columns, messages) ==
    IF ~world.desc.ok THEN Returned("frame", columns, <<>>, messages \o <<"error">>)
    ELSE LET named == SelectSeq(world.desc.rows, LAMBDA r : r.name # "")
         IN  Returned("frame", columns,
                      [i \in 1..Len(named) |->
                            ColumnData(named[i].name, named[i].type, named[i].comment)],
                      messages \o <<"info", "info">>
                               \o (IF named = <<>> THEN <<"warning">> ELSE <<>>))

\* lines 252-356
GetColumns(world) ==
    LET columns == <<"COLUMN_NAME", "DATA_TYPE", "CURRENT_DESCRIPTION", "HAS_DESCRIPTION">>
    IN  IF world.columns.ok
        THEN Returned("frame", columns,
                      [i \in 1..Len(world.columns.rows) |->
                            ColumnData(world.columns.rows[i].name, world.columns.rows[i].type,
                                       world.columns.rows[i].comment)],
                      <<>>)
        ELSE DescTable(world, columns, <<"warning">>)

\* lines 386 and 431: the fully qualified name of a contact
ContactPath(row) == <<row.database, row.schema, row.name>>

\* lines 359-395
GetAllContacts(world) ==
    IF world.contacts.ok
    THEN LET whole == SelectSeq(world.contacts.rows,
                                LAMBDA r : r.name # "" /\ r.database # "" /\ r.schema # "")
         IN  Returned("list", <<>>,
                      <<"None">> \o [i \in 1..Len(whole) |-> ContactPath(whole[i])], <<>>)
    ELSE Returned("list", <<>>, <<"None">>, <<"warning", "info">>)

\* lines 398-439: a later row of the same purpose replaces an earlier one
GetTableContacts(world) ==
    IF world.references.ok
    THEN LET rows == world.references.rows
             whole == {i \in 1..Len(rows) :
                        rows[i].name # "" /\ rows[i].database # "" /\ rows[i].schema # ""}
             purposes == {rows[i].purpose : i \in whole}
             last(p) == CHOOSE i \in whole :
                            /\ rows[i].purpose = p
                            /\ \A j \in whole : rows[j].purpose = p => j <= i
         IN  Returned("dict", <<>>, [p \in purposes |-> ContactPath(rows[last(p)])], <<>>)
    ELSE Returned("dict", <<>>, <<>>, <<"warning">>)

\* pages/data_descriptions.py lines 50-69: the schema selector shown for the
\* selected database; `in` and `+` raise TypeError on None
SchemaSelector(world) ==
    LET schemas == GetSchemas(world)
    IN  IF schemas.kind # "list" THEN Raised(schemas.messages)
        ELSE Returned("list", <<>>, <<"">> \o schemas.value, schemas.messages)

(***************************************************************************)
(* Specification SpecQuote: quote_identifier applied to every identifier   *)
(* over a small alphabet, and applied again to its own result.             *)
(***************************************************************************)
MaxIdLen == 4
QuoteAlphabet == {"f", "R", "o", "M", "x", DQ, SP, TAB, "-"}
QuoteInputs == TextsUpTo(QuoteAlphabet, MaxIdLen) \cup {None}

QuoteIdle == qPc = "idle" /\ qInput = None /\ qOnce = None /\ qTwice = None

QuoteInit ==
    /\ qPc = "input"
    /\ qInput \in QuoteInputs
    /\ qOnce = None
    /\ qTwice = None

QuoteApply ==
    /\ qPc = "input"
    /\ qOnce' = QuoteIdentifier(qInput)
    /\ qTwice' = QuoteIdentifier(QuoteIdentifier(qInput))
    /\ qPc' = "done"
    /\ UNCHANGED qInput

(***************************************************************************)
(* Specification SpecView: update_view_descriptions called once on a view  *)
(* DB.SCH.V, for every view definition, column list and outcome below.     *)
(***************************************************************************)
MaxCols == 2

DbName == <<"D", "B">>
SchName == <<"S", "C", "H">>
ViewName == <<"V">>

\* the SELECT texts a view may have been defined with
ViewBodies ==
    LET SelectKeywords == {"SELECT", "select"}
        AfterSelect == {<<SP>>, <<NL, TAB>>}
        SelectLists == { <<"A", ",", SP, "B">>, <<"SELECT", "_", "I", "D">>, <<"*">> }
        Sources == { <<"T">>,
                     <<"(", "SELECT", SP, "A", SP, "FROM", SP, "T", ")", SP, "X">> }
        Tails == { <<>>, <<SP, "WHERE", SP, "(", "A", SP, "=", SP, "1", ")">> }
    IN  { <<kw>> \o ws \o list \o <<SP, "FROM", SP>> \o src \o tail :
            kw \in SelectKeywords, ws \in AfterSelect, list \in SelectLists,
            src \in Sources, tail \in Tails }

\* the column list GET_DDL prints in the header
HeaderColumns(cols) ==
    Join([i \in 1..Len(cols) |->
            IF Truthy(cols[i].cur) THEN CommentedColumn(cols[i].name, cols[i].cur)
            ELSE cols[i].name],
         <<",", SP>>)

\* the boundary shapes: the header's closing parenthesis, an optional view
\* comment, AS, then either a parenthesised body or the body itself; a view
\* created without a column list has no boundary of these shapes
BoundaryShapes == {"paren", "comment paren", "select", "comment select"}

ViewDdl(shape, gap, askw, body, term, cols) ==
    LET name == <<"create or replace view", SP>> \o DbName \o <<".">> \o SchName
                    \o <<".">> \o ViewName
        header == name \o <<"(">> \o HeaderColumns(cols) \o <<")">>
        comment == IF shape \in {"comment paren", "comment select"}
                   THEN <<SP, "COMMENT", "=", SQ, "o", "l", "d", SQ>> ELSE <<>>
    IN  CASE shape \in {"paren", "comment paren"} ->
                header \o comment \o gap \o <<askw>> \o gap \o <<"(">> \o body \o <<")">> \o term
          [] shape \in {"select", "comment select"} ->
                header \o comment \o gap \o <<askw>> \o gap \o body \o term
          [] shape = "no column list" ->
                name \o gap \o <<askw>> \o gap \o body \o term

\* columns_df rows and the LLM's answers
RawAnswers == {None, <<SP>>, <<"n", SQ, "w", NL>>, <<DQ, "q", DQ>>}
ViewDescriptions == {None, <<"v", SQ, "d">>}

ColumnRows ==
    [ name : {<<"A">>, <<"a">>, <<"B">>}, dtype : {"NUMBER"},
      cur : {None, <<SP>>, <<"o", SQ, "k">>} ]
ColumnLists ==
    {c \in UNION {[1..n -> ColumnRows] : n \in 0..MaxCols} :
        \A i, j \in 1..Len(c) : i # j => c[i].name # c[j].name}

DefaultCols ==
    << [name |-> <<"A">>, dtype |-> "NUMBER", cur |-> None],
       [name |-> <<"B">>, dtype |-> "NUMBER", cur |-> None] >>
DefaultBody == <<"SELECT", SP, "A", ",", SP, "B", SP, "FROM", SP, "T">>
AllInsertsOk == [k \in 1..(MaxCols + 1) |-> TRUE]

ViewIdle ==
    /\ vPc = "idle" /\ vDdl = <<>> /\ vBody = <<>> /\ vShape = "none" /\ vCols = <<>>
    /\ vRaw = <<>> /\ vViewDesc = None /\ vGenCols = FALSE /\ vExecOk = FALSE
    /\ vInsertOk = <<>> /\ vOut = NoOutput

\* every view definition, with the default columns
ViewInitDdl ==
    /\ vCols = DefaultCols /\ vRaw = <<None, <<"n", SQ, "w", NL>>>>
    /\ vGenCols = TRUE /\ vExecOk = TRUE /\ vInsertOk = AllInsertsOk
    /\ vViewDesc \in ViewDescriptions
    /\ vBody \in ViewBodies
    /\ vShape \in BoundaryShapes \cup {"no column list"}
    /\ \E gap \in {<<SP>>, <<NL>>}, askw \in {"AS", "as"}, term \in {<<>>, <<";">>} :
          vDdl = ViewDdl(vShape, gap, askw, vBody, term, vCols)

\* every column list and every answer of the LLM, with the default definition
ViewInitCols ==
    /\ vCols \in ColumnLists
    /\ vRaw \in [1..Len(vCols) -> RawAnswers]
    /\ vGenCols \in BOOLEAN /\ vExecOk = TRUE /\ vInsertOk = AllInsertsOk
    /\ vViewDesc \in ViewDescriptions
    /\ vBody = DefaultBody
    /\ vShape = "paren"
    /\ vDdl = ViewDdl(vShape, <<SP>>, "AS", vBody, <<>>, vCols)

\* every outcome at the warehouse, GET_DDL failing included
ViewInitOutcomes ==
    /\ vCols = DefaultCols
    /\ vRaw \in [1..Len(vCols) -> {None, <<"n", SQ, "w", NL>>}]
    /\ vGenCols \in BOOLEAN
    /\ vExecOk \in BOOLEAN
    /\ vInsertOk \in [1..(MaxCols + 1) -> BOOLEAN]
    /\ vViewDesc \in ViewDescriptions
    /\ vBody = DefaultBody
    /\ vShape = "paren"
    /\ vDdl \in {<<>>, ViewDdl(vShape, <<SP>>, "AS", vBody, <<>>, vCols)}

\* the view written as CREATE OR REPLACE VIEW DB.SCH.V (A, B) AS (SELECT A, B
\* FROM T), the LLM describing column B as "a metric" and failing on column A
ExampleDdl ==
    <<"CREATE OR REPLACE VIEW", SP>> \o DbName \o <<".">> \o SchName \o <<".">> \o ViewName
        \o <<SP, "(", "A", ",", SP, "B", ")", SP, "AS", SP, "(">> \o DefaultBody \o <<")">>
ViewInitExample ==
    /\ vCols = DefaultCols /\ vRaw = <<None, <<"a", SP, "m", "e", "t", "r", "i", "c">>>>
    /\ vGenCols = TRUE /\ vExecOk \in BOOLEAN /\ vInsertOk = AllInsertsOk
    /\ vViewDesc = None
    /\ vBody = DefaultBody
    /\ vShape = "paren"
    /\ vDdl = ExampleDdl

ViewInit ==
    /\ vPc = "input"
    /\ vOut = NoOutput
    /\ (ViewInitDdl \/ ViewInitCols \/ ViewInitOutcomes \/ ViewInitExample)

UpdateView ==
    /\ vPc = "input"
    /\ vOut' = UpdateViewDescriptions(history, DbName, SchName, ViewName, vDdl, vCols, vRaw,
                                      vViewDesc, vGenCols, vExecOk, vInsertOk)
    /\ history' = vOut'.history
    /\ vPc' = "done"
    /\ UNCHANGED <<vDdl, vBody, vShape, vCols, vRaw, vViewDesc, vGenCols, vExecOk, vInsertOk>>

(***************************************************************************)
(* Specification SpecBulk: the Data Quality page generates the SQL for the *)
(* configured tables (pages/data_quality.py line 227) and "Apply All DMFs" *)
(* executes it (line 253).                                                 *)
(***************************************************************************)
MaxTables == 2
MaxDmfCols == 2
MaxFailAt == 3

\* utils/dmf_utils.py lines 21-63, in the dictionary's order
SYSTEM_DMFS ==
    << [key |-> "ROW_COUNT", level |-> "table", data_types |-> {}],
       [key |-> "FRESHNESS", level |-> "column",
        data_types |-> {"DATE", "TIME", "TIMESTAMP", "TIMESTAMP_LTZ", "TIMESTAMP_NTZ",
                        "TIMESTAMP_TZ"}],
       [key |-> "NULL_COUNT", level |-> "column", data_types |-> {"ALL"}],
       [key |-> "DUPLICATE_COUNT", level |-> "column", data_types |-> {"ALL"}],
       [key |-> "UNIQUE_COUNT", level |-> "column", data_types |-> {"ALL"}] >>

\* the members of s at the positions in m, in order
Pick(s, m) ==
    [k \in 1..Cardinality(m) |->
        s[CHOOSE x \in m : Cardinality({y \in m : y < x}) = k - 1]]

\* utils/dmf_utils.py lines 65-85; a data type is a sequence of lexemes
get_compatible_dmfs_for_data_type(data_type) ==
    LET compatible ==
            {i \in 1..Len(SYSTEM_DMFS) :
                /\ SYSTEM_DMFS[i].level # "table"
                /\ \/ "ALL" \in SYSTEM_DMFS[i].data_types
                   \/ \E t \in SYSTEM_DMFS[i].data_types : Contains(Upper(data_type), t)}
    IN  [k \in 1..Cardinality(compatible) |-> Pick(SYSTEM_DMFS, compatible)[k].key]

\* the columns get_columns returns for every table of the schema
TableColumns ==
    << [name |-> <<"A", "M", "T">>, dtype |-> <<"NUMBER">>],
       [name |-> <<"A", "-", "B">>, dtype |-> <<"NUMBER">>],
       [name |-> <<"D", "A", "T", "E">>, dtype |-> <<"DATE">>] >>

\* utils/dmf_utils.py lines 157-329: the configs configure_table_dmfs returns
\* (a box per table-level metric, a timestamp column when freshness is
\* ticked, a non-empty ticked subset of the compatible metrics per column),
\* and the config whose freshness box is ticked with no column designated
TableConfigs ==
    LET ticks(i) == {Pick(get_compatible_dmfs_for_data_type(TableColumns[i].dtype), m) :
                        m \in SUBSET (1..Len(get_compatible_dmfs_for_data_type(TableColumns[i].dtype)))}
        choices == {f \in [1..Len(TableColumns) -> UNION {ticks(i) : i \in 1..Len(TableColumns)}] :
                        /\ \A i \in 1..Len(TableColumns) : f[i] \in ticks(i)
                        /\ Cardinality({i \in 1..Len(TableColumns) : f[i] # <<>>}) <= MaxDmfCols}
        column_dmfs(f) ==
            LET all == [i \in 1..Len(TableColumns) |->
                            [col |-> TableColumns[i].name, dmfs |-> f[i]]]
            IN  Pick(all, {i \in 1..Len(TableColumns) : f[i] # <<>>})
        config(rc, fr, f) ==
            [ row_count |-> rc, freshness |-> fr[1], freshness_column |-> fr[2],
              column_dmfs |-> column_dmfs(f) ]
        few == {f \in choices : \A i \in 1..Len(TableColumns) : Len(f[i]) <= 1 /\ (i > 1 => f[i] = <<>>)}
        all == { config("on", <<"off", None>>, f) : f \in choices } \cup
               { config(rc, fr, f) :
                    rc \in {"on", "off"},
                    fr \in { <<"off", None>>, <<"on", <<"D", "A", "T", "E">>>>, <<"on", None>> },
                    f \in few }
    IN  {c \in all : c.row_count = "on" \/ c.freshness = "on" \/ c.column_dmfs # <<>>}

OrdersConfig ==
    [ row_count |-> "on", freshness |-> "off", freshness_column |-> None,
      column_dmfs |-> << [col |-> <<"A", "M", "T">>, dmfs |-> <<"NULL_COUNT">>] >> ]
FreshConfig ==
    [ row_count |-> "off", freshness |-> "on", freshness_column |-> <<"D", "A", "T", "E">>,
      column_dmfs |-> << [col |-> <<"A", "-", "B">>, dmfs |-> <<"NULL_COUNT">>],
                         [col |-> <<"D", "A", "T", "E">>, dmfs |-> <<"FRESHNESS", "UNIQUE_COUNT">>] >> ]
Orders == <<"O", "R", "D", "E", "R", "S">>
OtherTable == <<"M", "Y", SP, "T">>

\* SQL blocks handed to execute_bulk_dmf_configuration directly
SqlBlocks ==
    LET t == <<"D", "B", ".", "S", "C", "H", ".", "T">>
        add(key, col) == AddDmfStatement(t, key, col)
        lower == <<"alter table", SP>> \o t \o <<SP, "add data metric function", SP,
                    "snowflake.core.", "null_count", SP, "on", SP, "(", "A", ")", ";">>
    IN  { <<>>,
          Comment(<<"nothing to do">>) \o <<NL, NL, SP, NL>>,
          Join(<<add("ROW_COUNT", <<>>), add("NULL_COUNT", <<"A">>),
                 add("UNIQUE_COUNT", <<"A">>)>>, <<NL>>),
          Join(<<<<SP, SP>> \o add("ROW_COUNT", <<>>) \o <<SP>>, <<>>,
                 <<TAB>> \o Comment(<<"skipped">>), lower,
                 <<"SELECT 1;">>>>, <<NL>>) }

\* two texts datetime.now() formats to, one second apart
Moments == {"2025-01-01 00:00:00", "2025-01-01 00:00:01"}

NoBulkOutput ==
    [ status |-> "none", total_commands |-> 0, success_count |-> 0, error_count |-> 0,
      attempted |-> <<>>, history |-> <<>> ]

BulkIdle ==
    /\ bPc = "idle" /\ bConfigs = <<>> /\ bSchedule = None /\ bNow = "" /\ bSql = <<>>
    /\ bExecFail = {} /\ bInsertFail = {} /\ bOut = NoBulkOutput

BulkInit ==
    /\ bOut = NoBulkOutput
    /\ \/ \* one table, every configuration, everything accepted
          /\ bPc = "configured" /\ bSql = <<>>
          /\ \E c \in TableConfigs : bConfigs = <<[name |-> Orders, config |-> c]>>
          /\ bSchedule = [description |-> "Every hour", schedule_expression |-> "60 MINUTE"]
          /\ bNow = "2025-01-01 00:00:00"
          /\ bExecFail = {} /\ bInsertFail = {}
       \/ \* several tables, generated at two different times
          /\ bPc = "configured" /\ bSql = <<>>
          /\ \E n \in 1..MaxTables :
                bConfigs \in [1..n -> [name : {Orders, OtherTable},
                                       config : {OrdersConfig, FreshConfig}]]
          /\ \A i, j \in 1..Len(bConfigs) : i # j => bConfigs[i].name # bConfigs[j].name
          /\ bSchedule = [description |-> "Every hour", schedule_expression |-> "60 MINUTE"]
          /\ bNow \in Moments
          /\ bExecFail = {} /\ bInsertFail = {}
       \/ \* the ORDERS example, every outcome at the warehouse
          /\ bPc = "configured" /\ bSql = <<>>
          /\ bConfigs = <<[name |-> Orders, config |-> OrdersConfig]>>
          /\ bSchedule = [description |-> "Every hour", schedule_expression |-> "60 MINUTE"]
          /\ bNow = "2025-01-01 00:00:00"
          /\ bExecFail \in SUBSET (1..MaxFailAt) /\ bInsertFail \in SUBSET (1..MaxFailAt)
       \/ \* a block passed to the executor as it is
          /\ bPc = "generated" /\ bSql \in SqlBlocks
          /\ bConfigs = <<>> /\ bSchedule = None /\ bNow = ""
          /\ bExecFail \in SUBSET (1..MaxFailAt) /\ bInsertFail \in SUBSET (1..MaxFailAt)

\* pages/data_quality.py lines 224-229
GenerateSql ==
    /\ bPc = "configured"
    /\ bSql' = GenerateBulkDmfSql(DbName, SchName, bSchedule, bConfigs, bNow)
    /\ bPc' = "generated"
    /\ UNCHANGED <<bConfigs, bSchedule, bNow, bExecFail, bInsertFail, bOut, history>>

\* pages/data_quality.py lines 248-255: "Apply All DMFs"
ApplyAllDmfs ==
    /\ bPc = "generated"
    /\ bOut' = ExecuteBulkDmfConfiguration(
                    history, DbName, SchName, bSql,
                    [i \in 1..Len(SqlLines(bSql)) |-> i \notin bExecFail],
                    [i \in 1..Len(SqlLines(bSql)) |-> i \notin bInsertFail])
    /\ history' = bOut'.history
    /\ bPc' = "applied"
    /\ UNCHANGED <<bConfigs, bSchedule, bNow, bSql, bExecFail, bInsertFail>>

(***************************************************************************)
(* Specification SpecCache: one cached fetcher of utils/data_fetchers.py   *)
(* or utils/kpi_utils.py, called from a browser session.  Every fetcher is *)
(* wrapped in st.cache_data(ttl=300); the cache is shared by all sessions  *)
(* of the server, st.session_state belongs to one session.                 *)
(***************************************************************************)
MaxRefresh == 2
MaxData == 1
TTL == 300

\* the fetchers that take the caller's last_refresh as _refresh_key, and the
\* others
TokenFetchers == {"get_tables_and_views", "get_columns", "get_table_contacts"}
Fetchers == TokenFetchers \cup {"get_databases", "get_schemas", "get_kpi_data"}
\* the values of the hashed arguments (database, schema, table)
FetchArgs == {"DB.SCH.T", "DB.SCH.V"}

NoEntry == [age |-> -1, token |-> -1, value |-> -1]
NoFetch == [op |-> "none", args |-> "", token |-> -1, hit |-> FALSE, found |-> NoEntry,
            value |-> -1]

\* st.cache_data keys an entry by the function and the arguments whose names
\* do not start with an underscore (_conn and _refresh_key do), and drops an
\* entry once it is ttl seconds old: whether entry answers a call
CacheLookupNeverExpires(entry) == entry # NoEntry
CacheLookup(entry) == entry # NoEntry /\ entry.age < TTL

CacheIdle ==
    /\ cFn = "none" /\ cCache = <<>> /\ cToken = 0 /\ cClicks = 0 /\ cData = 0
    /\ cLast = NoFetch

\* utils/setup.py lines 140-141: last_refresh starts as ""
CacheInit ==
    /\ cFn \in Fetchers
    /\ cCache = [a \in FetchArgs |-> NoEntry]
    /\ cToken = 0 /\ cClicks = 0 /\ cData = 0
    /\ cLast = NoFetch

\* a page calls the fetcher with its arguments and, where the fetcher takes
\* one, st.session_state['last_refresh']
Fetch ==
    \E a \in FetchArgs :
        LET token == IF cFn \in TokenFetchers THEN cToken ELSE -1
            hit == CacheLookup(cCache[a])
            computed == [age |-> 0, token |-> token, value |-> cData]
        IN  /\ cCache' = IF hit THEN cCache ELSE [cCache EXCEPT ![a] = computed]
            /\ cLast' = [op |-> "fetch", args |-> a, token |-> token, hit |-> hit,
                         found |-> cCache[a],
                         value |-> IF hit THEN cCache[a].value ELSE cData]
            /\ UNCHANGED <<cFn, cToken, cClicks, cData>>

\* the Refresh buttons of the descriptions, quality and contacts pages:
\* st.cache_data.clear() and last_refresh = str(time.time())
Refresh ==
    /\ cClicks < MaxRefresh
    /\ cCache' = [a \in FetchArgs |-> NoEntry]
    /\ cClicks' = cClicks + 1
    /\ cToken' = cClicks + 1
    /\ cLast' = NoFetch
    /\ UNCHANGED <<cFn, cData>>

\* pages/home.py "Refresh KPIs": st.cache_data.clear() only
RefreshKpis ==
    /\ cCache' = [a \in FetchArgs |-> NoEntry]
    /\ cLast' = NoFetch
    /\ UNCHANGED <<cFn, cToken, cClicks, cData>>

\* the browser opens a new session: initialize_session_state sets
\* last_refresh to "" again, the server's cache stays
NewSession ==
    /\ cToken' = 0
    /\ cLast' = NoFetch
    /\ UNCHANGED <<cFn, cCache, cClicks, cData>>

\* time passes; ages past the ttl are not told apart
AdvanceTime ==
    \E d \in {TTL - 1, TTL, TTL + 1} :
        /\ cCache' = [a \in FetchArgs |->
                        IF cCache[a] = NoEntry THEN NoEntry
                        ELSE [cCache[a] EXCEPT !.age = Min({@ + d, TTL + 1})]]
        /\ cLast' = NoFetch
        /\ UNCHANGED <<cFn, cToken, cClicks, cData>>

\* the warehouse's metadata changes (a comment, a contact, a new table)
ChangeData ==
    /\ cData < MaxData
    /\ cData' = cData + 1
    /\ cLast' = NoFetch
    /\ UNCHANGED <<cFn, cCache, cToken, cClicks>>

(***************************************************************************)
(* Specification SpecAudit: the pages of the application used one after    *)
(* the other, over several sessions, against one audit table.              *)
(***************************************************************************)
MaxHistory == 2

TableName == <<"T">>

\* what the cached fetchers return for the schema: get_tables_and_views,
\* get_columns and GET_DDL
AuditWorld ==
    [ tables |->
        (SchName :> << [OBJECT_NAME |-> TableName, OBJECT_TYPE |-> "BASE TABLE",
                        CURRENT_DESCRIPTION |-> <<"o", "l", "d">>],
                       [OBJECT_NAME |-> ViewName, OBJECT_TYPE |-> "VIEW",
                        CURRENT_DESCRIPTION |-> None] >>),
      columns |->
        (<<SchName, TableName>> :> <<[name |-> <<"A">>, dtype |-> "NUMBER", cur |-> None]>>)
        @@ (<<SchName, ViewName>> :> DefaultCols),
      ddl |->
        (<<SchName, ViewName>> :> ViewDdl("paren", <<SP>>, "AS", DefaultBody, <<>>, DefaultCols)) ]

\* the LLM answers every prompt
AuditAnswers ==
    [key \in { <<SchName, TableName, <<>>>>, <<SchName, TableName, <<"A">>>>,
               <<SchName, ViewName, <<>>>>, <<SchName, ViewName, <<"A">>>>,
               <<SchName, ViewName, <<"B">>>> } |-> <<"n", "e", "w">>]

\* the contacts chosen for <<steward, support, approver>>: from the select
\* boxes ("None" or a contact), or typed into the text inputs of the
\* fallback (lines 231-253), where a purpose left alone is the empty text
ContactChoices ==
    { << <<"C", "1">>, <<"None">>, <<"None">> >>,
      << <<"C", "1">>, <<"C", "2">>, <<"None">> >>,
      << <<"C", "1">>, <<>>, <<>> >> }

NoOperation == [op |-> "none", changes |-> 0, records |-> 0, purposes |-> {}]

AuditIdle == aSetup = FALSE /\ aTable = FALSE /\ aSession = <<>> /\ aLast = NoOperation

\* before the first session: the audit table does not exist yet
AuditInit == AuditIdle

\* app.py lines 67-77: the setup runs once per session, and the pages are
\* shown only when it succeeded
Setup ==
    /\ ~aSetup
    /\ \E ok \in BOOLEAN :
        LET out == SetupDatabaseObjects(history, aTable, ok)
        IN  /\ history' = out.history
            /\ aTable' = out.exists
            /\ aSetup' = out.result
    /\ aLast' = [NoOperation EXCEPT !.op = "setup"]
    /\ UNCHANGED aSession

\* a new browser session: st.session_state starts empty
OpenSession ==
    /\ aSetup
    /\ aSetup' = FALSE /\ aSession' = <<>>
    /\ aLast' = [NoOperation EXCEPT !.op = "session"]
    /\ UNCHANGED <<aTable, history>>

\* pages/data_descriptions.py lines 245-255: the three generate buttons
GenerateDescriptions ==
    /\ aSetup /\ Len(history) < MaxHistory
    /\ \E generation_type \in {"table", "column", "both"},
          objects \in {<<TableName>>, <<ViewName>>, <<TableName, ViewName>>},
          execFail \in {{}, {<<SchName, TableName, <<>>>>}, {<<SchName, ViewName, <<>>>>}},
          insertFail \in {{}, DOMAIN AuditAnswers} :
        /\ \A key \in execFail : Len(objects) = 1 /\ key[2] = objects[1]
        /\ \E run \in { GenerateDescriptionsForObjects(
                        history, aSession, DbName, SchName, objects,
                        [has_schema |-> FALSE, rows |-> <<>>], generation_type, AuditWorld,
                        [answer |-> AuditAnswers, execFail |-> execFail,
                         insertFail |-> insertFail]) } :
                /\ history' = run.history
                /\ aSession' = run.session
                /\ aLast' = [op |-> "describe", changes |-> Len(run.applied),
                             records |-> Len(run.history) - Len(history),
                             purposes |-> {}]
    /\ UNCHANGED <<aSetup, aTable>>

\* pages/data_quality.py lines 224-255: the SQL of the ORDERS configuration
\* generated and applied
ApplyDmfs ==
    /\ aSetup /\ Len(history) < MaxHistory
    /\ \E execFail \in {{}, {2}}, insertFail \in {{}, {2, 3}} :
        \E sql \in { GenerateBulkDmfSql(
                        DbName, SchName,
                        [description |-> "Every hour", schedule_expression |-> "60 MINUTE"],
                        <<[name |-> Orders, config |-> OrdersConfig]>>,
                        "2025-01-01 00:00:00") } :
        \E out \in { ExecuteBulkDmfConfiguration(
                        history, DbName, SchName, sql,
                        [i \in 1..Len(Split(sql, NL)) |-> i \notin execFail],
                        [i \in 1..Len(Split(sql, NL)) |-> i \notin insertFail]) } :
            /\ history' = out.history
            /\ aLast' = [op |-> "dmf",
                         changes |-> Cardinality(
                            {i \in 1..Len(out.attempted) :
                                /\ i \notin execFail
                                /\ Contains(Upper(out.attempted[i]),
                                            "ADD DATA METRIC FUNCTION")}),
                         records |-> Len(out.history) - Len(history),
                         purposes |-> {}]
    /\ UNCHANGED <<aSetup, aTable, aSession>>

\* pages/data_contacts.py lines 299-331: "Apply Contact Assignments" on one table
AssignContacts ==
    /\ aSetup /\ Len(history) < MaxHistory
    /\ \E contacts \in ContactChoices, execFail \in {{}, {TableName}}, insertOk \in BOOLEAN :
        \E out \in { ApplyContacts(history, DbName, SchName, <<TableName>>, contacts,
                                    execFail, insertOk) } :
            /\ ContactAssignments(contacts) # <<>>
            /\ history' = out.history
            /\ aLast' = [op |-> "contacts", changes |-> Len(out.applied),
                         records |-> Len(out.history) - Len(history),
                         purposes |-> {out.applied[k].column : k \in 1..Len(out.applied)}]
    /\ UNCHANGED <<aSetup, aTable, aSession>>

\* the Refresh buttons (pages/data_contacts.py lines 91-93 and the like):
\* the caches are cleared, the audit table is not touched
RefreshData ==
    /\ aSetup /\ aLast.op # "refresh"
    /\ aLast' = [NoOperation EXCEPT !.op = "refresh"]
    /\ UNCHANGED <<aSetup, aTable, aSession, history>>

\* pages/history.py: the page only SELECTs from the audit table
ViewHistory ==
    /\ aSetup /\ aLast.op # "history"
    /\ aLast' = [NoOperation EXCEPT !.op = "history"]
    /\ UNCHANGED <<aSetup, aTable, aSession, history>>

(***************************************************************************)
(* Specification SpecMeta: one call of a metadata fetcher, or one render   *)
(* of the schema selector, against a warehouse that answers or rejects     *)
(* each query.                                                             *)
(***************************************************************************)
MaxObjects == 2

Failed == [ok |-> FALSE, rows |-> <<>>]
Answer(rows) == [ok |-> TRUE, rows |-> rows]

\* the schema's objects: a table with or without a comment, a view that is
\* or is not readable and is or is not flagged secure, a second view, a
\* second table; at most MaxObjects of them, in the order of their names
Catalogs ==
    LET Object(name, type, comment, accessible, secure) ==
            [ name |-> name, type |-> type, comment |-> comment,
              accessible |-> accessible, secure |-> secure ]
        Variants ==
            << { Object("T", "BASE TABLE", c, TRUE, FALSE) : c \in {"", "c"} },
               { Object("V", "VIEW", "", a, s) : a \in BOOLEAN, s \in BOOLEAN },
               { Object("W", "VIEW", "c", a, FALSE) : a \in BOOLEAN },
               { Object("X", "BASE TABLE", " ", TRUE, FALSE) } >>
        RECURSIVE From_(_, _)
        From_(k, room) ==
            IF k > Len(Variants) THEN {<<>>}
            ELSE From_(k + 1, room)
                 \cup (IF room = 0 THEN {}
                       ELSE { <<o>> \o rest : o \in Variants[k], rest \in From_(k + 1, room - 1) })
    IN  From_(1, MaxObjects)

\* every query is rejected
NoWorld ==
    [ databases |-> Failed, schemata |-> Failed, show_schemas |-> Failed,
      tables_ok |-> FALSE, show_tables_ok |-> FALSE, show_views_ok |-> FALSE,
      catalog |-> <<>>, columns |-> Failed, desc |-> Failed,
      contacts |-> Failed, references |-> Failed ]

MetaWorlds ==
    LET Column(name, type, comment) == [name |-> name, type |-> type, comment |-> comment]
        Contact(name, database, schema, purpose) ==
            [name |-> name, database |-> database, schema |-> schema, purpose |-> purpose]
        ColumnAnswers ==
            { Failed, Answer(<<>>),
              Answer(<<Column("A", "NUMBER", "c"), Column("B", "TEXT", "NULL")>>),
              Answer(<<Column("", "TEXT", "")>>) }
        ContactAnswers ==
            { Failed, Answer(<<>>),
              Answer(<<Contact("C1", "DB", "S1", "STEWARD"), Contact("C2", "DB", "", "SUPPORT"),
                       Contact("C3", "DB", "S1", "STEWARD")>>) }
    IN  { [NoWorld EXCEPT !.schemata = s[1], !.show_schemas = s[2], !.tables_ok = t[1],
                          !.show_tables_ok = t[2], !.show_views_ok = t[3], !.catalog = c] :
            s \in { <<Failed, Failed>>, <<Answer(<<>>), Failed>>,
                    <<Answer(<<"S1">>), Failed>>,
                    <<Failed, Answer(<<"INFORMATION_SCHEMA", "S2", "S1">>)>> },
            t \in { <<TRUE, FALSE, FALSE>>, <<FALSE, FALSE, FALSE>>,
                    <<FALSE, TRUE, FALSE>>, <<FALSE, TRUE, TRUE>> },
            c \in Catalogs }
        \cup
        { [NoWorld EXCEPT !.databases = d, !.columns = c, !.desc = e] :
            d \in {Failed, Answer(<<"DB", "SNOWFLAKE">>)},
            c \in ColumnAnswers, e \in ColumnAnswers }
        \cup
        { [NoWorld EXCEPT !.contacts = c, !.references = r] :
            c \in ContactAnswers, r \in ContactAnswers }

NoCall == [fn |-> "none", schema_name |-> ""]

MetaIdle ==
    /\ mPc = "none" /\ mWorld = NoWorld /\ mCall = NoCall
    /\ mOut = Returned("none", <<>>, <<>>, <<>>)

MetaInit ==
    /\ mPc = "idle" /\ mWorld \in MetaWorlds /\ mCall = NoCall
    /\ mOut = Returned("none", <<>>, <<>>, <<>>)

CallGetDatabases ==
    /\ mPc = "idle"
    /\ mPc' = "done" /\ mCall' = [fn |-> "get_databases", schema_name |-> ""]
    /\ mOut' = GetDatabases(mWorld)
    /\ UNCHANGED mWorld

CallGetSchemas ==
    /\ mPc = "idle"
    /\ mPc' = "done" /\ mCall' = [fn |-> "get_schemas", schema_name |-> ""]
    /\ mOut' = GetSchemas(mWorld)
    /\ UNCHANGED mWorld

\* with a schema chosen, or over all schemas of the database
CallGetTablesAndViews ==
    /\ mPc = "idle"
    /\ \E schema_name \in {"", "S1"} :
        /\ mCall' = [fn |-> "get_tables_and_views", schema_name |-> schema_name]
        /\ mOut' = GetTablesAndViews(mWorld, schema_name)
    /\ mPc' = "done"
    /\ UNCHANGED mWorld

CallGetColumns ==
    /\ mPc = "idle"
    /\ mPc' = "done" /\ mCall' = [fn |-> "get_columns", schema_name |-> "S1"]
    /\ mOut' = GetColumns(mWorld)
    /\ UNCHANGED mWorld

CallGetAllContacts ==
    /\ mPc = "idle"
    /\ mPc' = "done" /\ mCall' = [fn |-> "get_all_contacts", schema_name |-> ""]
    /\ mOut' = GetAllContacts(mWorld)
    /\ UNCHANGED mWorld

CallGetTableContacts ==
    /\ mPc = "idle"
    /\ mPc' = "done" /\ mCall' = [fn |-> "get_table_contacts", schema_name |-> "S1"]
    /\ mOut' = GetTableContacts(mWorld)
    /\ UNCHANGED mWorld

\* pages/data_descriptions.py lines 50-69, with a database selected
ShowSchemaSelector ==
    /\ mPc = "idle"
    /\ mPc' = "done" /\ mCall' = [fn |-> "schema selector", schema_name |-> ""]
    /\ mOut' = SchemaSelector(mWorld)
    /\ UNCHANGED mWorld

(***************************************************************************)
(* Specification SpecDescribe: descriptions generated run after run in one *)
(* session of the Data Descriptions page, for one schema or for all, with  *)
(* the fetchers' caches refreshed at any moment or not at all.             *)
(***************************************************************************)
MaxRuns == 2

OtherSchema == <<"S", "2">>

\* the objects of the database: the table T and the view V of SCH, a table
\* T of S2; and their comments before the first run
DescribeKeys ==
    { <<SchName, TableName, <<>>>>, <<SchName, TableName, <<"A">>>>,
      <<OtherSchema, TableName, <<>>>>, <<OtherSchema, TableName, <<"A">>>>,
      <<SchName, ViewName, <<>>>>, <<SchName, ViewName, <<"A">>>>,
      <<SchName, ViewName, <<"B">>>> }
InitialComments ==
    [k \in DescribeKeys |-> IF k = <<SchName, TableName, <<>>>> THEN <<"o", "l", "d">> ELSE None]

\* what GET_DDL returns for the view: its columns and its comment as the
\* warehouse holds them
DescribedViewDdl(comments) ==
    LET cols == [j \in 1..Len(DefaultCols) |->
                    [DefaultCols[j] EXCEPT
                        !.cur = comments[<<SchName, ViewName, DefaultCols[j].name>>]]]
        comment == comments[<<SchName, ViewName, <<>>>>]
    IN  <<"create or replace view", SP>> \o DbName \o <<".">> \o SchName \o <<".">> \o ViewName
            \o <<"(">> \o HeaderColumns(cols) \o <<")">>
            \o (IF Truthy(comment)
                THEN <<SP, "COMMENT", "=", SQ>> \o EscapeQuotes(comment) \o <<SQ>> ELSE <<>>)
            \o <<SP, "AS", SP, "(">> \o DefaultBody \o <<")">>

\* get_tables_and_views and get_columns are cached, GET_DDL is not
DescribeWorld(cached, comments) ==
    LET Described(schema, object, type) ==
            [ OBJECT_NAME |-> object, OBJECT_TYPE |-> type,
              CURRENT_DESCRIPTION |-> cached[<<schema, object, <<>>>>] ]
        Columns(schema, object, cols) ==
            [j \in 1..Len(cols) |->
                [cols[j] EXCEPT !.cur = cached[<<schema, object, cols[j].name>>]]]
        TableCols == <<[name |-> <<"A">>, dtype |-> "NUMBER", cur |-> None]>>
    IN  [ tables |->
            (SchName :> << Described(SchName, TableName, "BASE TABLE"),
                           Described(SchName, ViewName, "VIEW") >>)
            @@ (OtherSchema :> << Described(OtherSchema, TableName, "BASE TABLE") >>),
          columns |->
            (<<SchName, TableName>> :> Columns(SchName, TableName, TableCols))
            @@ (<<OtherSchema, TableName>> :> Columns(OtherSchema, TableName, TableCols))
            @@ (<<SchName, ViewName>> :> Columns(SchName, ViewName, DefaultCols)),
          ddl |-> (<<SchName, ViewName>> :> DescribedViewDdl(comments)) ]

\* the comments in the warehouse after the accepted statements of a run: a
\* COMMENT ON statement sets one comment; a recreated view has the comments
\* of its new definition: the given view comment or none, and per column
\* the new comment, else the one columns_df showed, else none
WarehouseAfter(comments, cached, applied) ==
    [k \in DOMAIN comments |->
        LET Of(c) == c.schema = k[1] /\ c.object = k[2]
            Sets(c) == Of(c) /\ (IF c.column = None THEN <<>> ELSE c.column) = k[3]
            mine == {i \in 1..Len(applied) : Sets(applied[i])}
        IN  IF mine # {} THEN applied[Max(mine)].value
            ELSE IF k[2] = ViewName /\ \E i \in 1..Len(applied) : Of(applied[i])
            THEN IF k[3] # <<>> /\ Truthy(cached[k]) /\ Strip(cached[k]) # <<>>
                 THEN cached[k] ELSE None
            ELSE comments[k]]

\* pages/data_descriptions.py lines 154-156: the rows ticked in the table of
\* the page and the schema selected ("" for all schemas); selected_objects
\* are the names of the rows
Row(schema, object) == [SCHEMA_NAME |-> schema, OBJECT_NAME |-> object]
PageSelection(schema, rows) ==
    [ schema |-> schema, objects |-> [i \in 1..Len(rows) |-> rows[i].OBJECT_NAME],
      has_schema |-> TRUE, rows |-> rows ]
PageSelections ==
    { PageSelection(SchName, <<Row(SchName, TableName)>>),
      PageSelection(SchName, <<Row(SchName, ViewName)>>),
      PageSelection(<<>>, <<Row(SchName, TableName), Row(OtherSchema, TableName)>>),
      PageSelection(<<>>, <<Row(OtherSchema, TableName), Row(SchName, ViewName)>>) }

\* calls of generate_descriptions_for_objects with no schema and rows that
\* do not hold every selected object, or no SCHEMA_NAME column
CallSelections ==
    { [schema |-> <<>>, objects |-> <<TableName, ViewName>>, has_schema |-> TRUE,
       rows |-> <<Row(SchName, ViewName)>>],
      [schema |-> <<>>, objects |-> <<ViewName, TableName>>, has_schema |-> TRUE,
       rows |-> <<Row(OtherSchema, TableName)>>],
      [schema |-> <<>>, objects |-> <<TableName>>, has_schema |-> FALSE,
       rows |-> <<[OBJECT_NAME |-> TableName]>>] }

\* the LLM answers every prompt but those of the set unanswered; the
\* warehouse accepts every statement but those of execFail, and every
\* history INSERT
DescribeOracle(unanswered, execFail) ==
    [ answer |-> [k \in DescribeKeys \ unanswered |-> <<"n", "e", "w">>],
      execFail |-> execFail, insertFail |-> {} ]
ViewOutcomes ==
    { [unanswered |-> {}, execFail |-> {}],
      [unanswered |-> {<<SchName, ViewName, <<"A">>>>}, execFail |-> {}],
      [unanswered |-> {}, execFail |-> {<<SchName, ViewName, <<>>>>}] }

NoRun ==
    [ op |-> "none", schema |-> <<>>, objects |-> <<>>, rows |-> <<>>, has_schema |-> FALSE,
      generation_type |-> "none", execFail |-> {}, first |-> 0,
      total_updates |-> 0, applied |-> <<>>, skipped |-> <<>> ]

DescribeIdle ==
    /\ dComments = <<>> /\ dCached = <<>> /\ dSession = <<>> /\ dRuns = 0 /\ dLast = NoRun

\* the page is shown: the listing has been fetched, nothing is pending
DescribeInit ==
    /\ dComments = InitialComments /\ dCached = InitialComments
    /\ dSession = <<>> /\ dRuns = 0 /\ dLast = NoRun

\* pages/data_descriptions.py lines 245-255: one of the three generate
\* buttons on the ticked rows, or generate_descriptions_for_objects called
\* with other rows; the comments the warehouse holds afterwards
GenerateDescriptionsRun ==
    /\ dRuns < MaxRuns
    /\ \E sel \in PageSelections \cup CallSelections,
          generation_type \in {"table", "column", "both"}, outcome \in ViewOutcomes :
        /\ (sel \in CallSelections \/ \A i \in 1..Len(sel.objects) : sel.objects[i] # ViewName)
                => outcome = [unanswered |-> {}, execFail |-> {}]
        /\ sel \in CallSelections => generation_type = "both"
        /\ \E world \in {DescribeWorld(dCached, dComments)},
              oracle \in {DescribeOracle(outcome.unanswered, outcome.execFail)} :
           \E run \in { GenerateDescriptionsForObjects(
                            history, dSession, DbName, sel.schema, sel.objects,
                            [has_schema |-> sel.has_schema, rows |-> sel.rows],
                            generation_type, world, oracle) } :
                /\ history' = run.history
                /\ dSession' = run.session
                /\ dComments' = WarehouseAfter(dComments, dCached, run.applied)
                /\ dRuns' = dRuns + 1
                /\ dLast' = [ op |-> "describe", schema |-> sel.schema,
                              objects |-> sel.objects, rows |-> sel.rows,
                              has_schema |-> sel.has_schema,
                              generation_type |-> generation_type,
                              execFail |-> outcome.execFail,
                              first |-> Len(history) + 1,
                              total_updates |-> run.total_updates,
                              applied |-> run.applied, skipped |-> run.skipped ]
                /\ UNCHANGED dCached

\* pages/data_descriptions.py lines 117-127: the Refresh button (and the
\* expiry of the cached entries after the TTL): the next fetch reads the
\* warehouse
RefreshDescriptions ==
    /\ dLast.op # "refresh" /\ dCached # dComments
    /\ dCached' = dComments
    /\ dLast' = [NoRun EXCEPT !.op = "refresh"]
    /\ UNCHANGED <<history, dComments, dSession, dRuns>>
(***************************************************************************)
(* The specifications                                                      *)
(***************************************************************************)
SpecQuoteInit == QuoteInit /\ history = <<>> /\ ViewIdle /\ BulkIdle /\ CacheIdle /\ AuditIdle /\ MetaIdle /\ DescribeIdle
SpecQuoteNext == QuoteApply /\ UNCHANGED <<history, viewVars, bulkVars, cacheVars, auditVars, metaVars, describeVars>>
SpecQuote == SpecQuoteInit /\ [][SpecQuoteNext]_vars

SpecViewInit == ViewInit /\ QuoteIdle /\ history = <<>> /\ BulkIdle /\ CacheIdle /\ AuditIdle /\ MetaIdle /\ DescribeIdle
SpecViewNext == UpdateView /\ UNCHANGED <<quoteVars, bulkVars, cacheVars, auditVars, metaVars, describeVars>>
SpecView == SpecViewInit /\ [][SpecViewNext]_vars

SpecBulkInit == BulkInit /\ QuoteIdle /\ ViewIdle /\ history = <<>> /\ CacheIdle /\ AuditIdle /\ MetaIdle /\ DescribeIdle
SpecBulkNext ==
    \/ GenerateSql /\ UNCHANGED <<quoteVars, viewVars, cacheVars, auditVars, metaVars, describeVars>>
    \/ ApplyAllDmfs /\ UNCHANGED <<quoteVars, viewVars, cacheVars, auditVars, metaVars, describeVars>>
SpecBulk == SpecBulkInit /\ [][SpecBulkNext]_vars

SpecCacheInit == CacheInit /\ QuoteIdle /\ ViewIdle /\ BulkIdle /\ history = <<>> /\ AuditIdle /\ MetaIdle /\ DescribeIdle
SpecCacheNext ==
    \/ Fetch /\ UNCHANGED <<quoteVars, history, viewVars, bulkVars, auditVars, metaVars, describeVars>>
    \/ Refresh /\ UNCHANGED <<quoteVars, history, viewVars, bulkVars, auditVars, metaVars, describeVars>>
    \/ RefreshKpis /\ UNCHANGED <<quoteVars, history, viewVars, bulkVars, auditVars, metaVars, describeVars>>
    \/ NewSession /\ UNCHANGED <<quoteVars, history, viewVars, bulkVars, auditVars, metaVars, describeVars>>
    \/ AdvanceTime /\ UNCHANGED <<quoteVars, history, viewVars, bulkVars, auditVars, metaVars, describeVars>>
    \/ ChangeData /\ UNCHANGED <<quoteVars, history, viewVars, bulkVars, auditVars, metaVars, describeVars>>
SpecCache == SpecCacheInit /\ [][SpecCacheNext]_vars


SpecAuditInit ==
    AuditInit /\ history = <<>> /\ QuoteIdle /\ ViewIdle /\ BulkIdle /\ CacheIdle /\ MetaIdle /\ DescribeIdle
SpecAuditNext ==
    \/ Setup /\ UNCHANGED <<quoteVars, viewVars, bulkVars, cacheVars, metaVars, describeVars>>
    \/ OpenSession /\ UNCHANGED <<quoteVars, viewVars, bulkVars, cacheVars, metaVars, describeVars>>
    \/ GenerateDescriptions /\ UNCHANGED <<quoteVars, viewVars, bulkVars, cacheVars, metaVars, describeVars>>
    \/ ApplyDmfs /\ UNCHANGED <<quoteVars, viewVars, bulkVars, cacheVars, metaVars, describeVars>>
    \/ AssignContacts /\ UNCHANGED <<quoteVars, viewVars, bulkVars, cacheVars, metaVars, describeVars>>
    \/ RefreshData /\ UNCHANGED <<quoteVars, viewVars, bulkVars, cacheVars, metaVars, describeVars>>
    \/ ViewHistory /\ UNCHANGED <<quoteVars, viewVars, bulkVars, cacheVars, metaVars, describeVars>>
SpecAudit == SpecAuditInit /\ [][SpecAuditNext]_vars

SpecMetaInit ==
    MetaInit /\ history = <<>> /\ QuoteIdle /\ ViewIdle /\ BulkIdle /\ CacheIdle /\ AuditIdle /\ DescribeIdle
SpecMetaNext ==
    \/ CallGetDatabases /\ UNCHANGED <<quoteVars, history, viewVars, bulkVars, cacheVars, auditVars, describeVars>>
    \/ CallGetSchemas /\ UNCHANGED <<quoteVars, history, viewVars, bulkVars, cacheVars, auditVars, describeVars>>
    \/ CallGetTablesAndViews /\ UNCHANGED <<quoteVars, history, viewVars, bulkVars, cacheVars, auditVars, describeVars>>
    \/ CallGetColumns /\ UNCHANGED <<quoteVars, history, viewVars, bulkVars, cacheVars, auditVars, describeVars>>
    \/ CallGetAllContacts /\ UNCHANGED <<quoteVars, history, viewVars, bulkVars, cacheVars, auditVars, describeVars>>
    \/ CallGetTableContacts /\ UNCHANGED <<quoteVars, history, viewVars, bulkVars, cacheVars, auditVars, describeVars>>
    \/ ShowSchemaSelector /\ UNCHANGED <<quoteVars, history, viewVars, bulkVars, cacheVars, auditVars, describeVars>>
SpecMeta == SpecMetaInit /\ [][SpecMetaNext]_vars


SpecDescribeInit ==
    DescribeInit /\ history = <<>> /\ QuoteIdle /\ ViewIdle /\ BulkIdle /\ CacheIdle /\ AuditIdle /\ MetaIdle
SpecDescribeNext ==
    \/ GenerateDescriptionsRun /\ UNCHANGED <<quoteVars, viewVars, bulkVars, cacheVars, auditVars, metaVars>>
    \/ RefreshDescriptions /\ UNCHANGED <<quoteVars, viewVars, bulkVars, cacheVars, auditVars, metaVars>>
SpecDescribe == SpecDescribeInit /\ [][SpecDescribeNext]_vars

(***************************************************************************)
(* Claims about quote_identifier (SpecQuote)                               *)
(***************************************************************************)
\* C10: quoting is idempotent: quote_identifier(quote_identifier(x)) equals
\* quote_identifier(x) for every x, None, the empty string, names already
\* wrapped in double quotes and names containing a double quote included.
C10_QuoteIdempotent == qPc = "done" => qTwice = qOnce

\* a name with an inner double quote that had to be quoted, quoted twice
C10_Witness ==
    /\ qPc = "done"
    /\ qInput # None
    /\ Contains(qInput, DQ)
    /\ qOnce # qInput
    /\ qOnce = <<DQ>> \o qInput \o <<DQ>>


\* C11 (as stated): a non-empty name not already wrapped in double quotes
\* comes back wrapped in one pair of double quotes when it holds a white
\* space character of any kind (blank, tab, line break), one of the
\* punctuation characters, or is a reserved word in any case; otherwise it
\* comes back unchanged.
C11_QuotingRule ==
    (/\ qPc = "done" /\ qInput # None /\ qInput # <<>>
     /\ ~(StartsWith(qInput, DQ) /\ EndsWith(qInput, DQ)))
    => qOnce = IF \/ \E i \in 1..Len(qInput) : IsWs(qInput[i])
                  \/ \E i \in 1..Len(qInput) : qInput[i] \in SpecialChars
                  \/ Upper(qInput) \in ReservedWords
               THEN <<DQ>> \o qInput \o <<DQ>>
               ELSE qInput
(***************************************************************************)
(* Claims about update_view_descriptions (SpecView)                        *)
(***************************************************************************)
\* the call got as far as building the CREATE OR REPLACE VIEW statement
ViewRebuilt == vPc = "done" /\ vOut.stage \in {"recreated", "execution failed"}

\* C1: for every view DDL whose header/body boundary has one of the five
\* shapes, the SELECT body placed in the rebuilt statement is exactly the
\* SELECT text the view was defined with.
C1_SelectBodyPreserved ==
    (ViewRebuilt /\ vShape \in BoundaryShapes) => vOut.clean_select = vBody


\* the generated comments whose column name equals, ignoring case, the name
\* of column i
C2_NewFor(i) ==
    {j \in 1..Len(vOut.column_descriptions) :
        Upper(vOut.column_descriptions[j].k) = Upper(vCols[i].name)}
C2_NonBlank(comment) ==
    comment # None /\ \E k \in 1..Len(comment) : ~IsWs(comment[k])
C2_Entry(col_name, comment) ==
    col_name \o <<SP, "COMMENT", SP, SQ>> \o EscapeQuotes(comment) \o <<SQ>>
C2_Quotes(text) == Cardinality({k \in 1..Len(text) : text[k] = SQ})

\* C2: the rebuilt column list has exactly one entry per column of columns_df,
\* in order: the column with its newly generated comment (matched ignoring
\* case) if there is one, else the column with its existing non-blank comment,
\* else the bare column name; every single quote of a comment is doubled.
C2_ColumnEntries ==
    ViewRebuilt =>
        /\ Len(vOut.column_definitions) = Len(vCols)
        /\ \A i \in 1..Len(vCols) :
            LET entry == vOut.column_definitions[i]
                col == vCols[i]
            IN  IF C2_NewFor(i) # {}
                THEN LET new == vOut.column_descriptions[Min(C2_NewFor(i))].v
                     IN  /\ entry = C2_Entry(col.name, new)
                         /\ C2_Quotes(entry) = 2 + 2 * C2_Quotes(new)
                ELSE IF C2_NonBlank(col.cur)
                THEN /\ entry = C2_Entry(col.name, col.cur)
                     /\ C2_Quotes(entry) = 2 + 2 * C2_Quotes(col.cur)
                ELSE entry = col.name

\* a rebuilt list where one column keeps an existing comment holding a quote
\* and another takes a generated one
C2_Witness ==
    /\ ViewRebuilt
    /\ \E i, j \in 1..Len(vCols) :
        /\ C2_NewFor(i) = {} /\ C2_NonBlank(vCols[i].cur) /\ C2_Quotes(vCols[i].cur) > 0
        /\ vOut.column_definitions[i] = C2_Entry(vCols[i].name, vCols[i].cur)
        /\ C2_NewFor(j) # {}

\* the call of the example: the view DB.SCH.V written as CREATE OR REPLACE
\* VIEW DB.SCH.V (A, B) AS (SELECT A, B FROM T), the one new comment
\* {B: 'a metric'}, no existing comments, no view description
C14_Example ==
    /\ vPc = "done" /\ vDdl = ExampleDdl /\ vCols = DefaultCols /\ vViewDesc = None
    /\ vOut.column_descriptions = <<[k |-> <<"B">>, v |-> <<"a", SP, "m", "e", "t", "r", "i", "c">>]>>

C14_Header == <<"CREATE OR REPLACE VIEW", SP>> \o DbName \o <<".">> \o SchName \o <<".">> \o ViewName
C14_ColumnB == <<"B", SP, "COMMENT", SP, SQ, "a", SP, "m", "e", "t", "r", "i", "c", SQ>>

C18_RecordsFollowExecution ==
    vPc = "done" =>
        IF vOut.stage = "recreated"
        THEN /\ vOut.result /\ vOut.executed = <<vOut.new_ddl>>
             /\ Len(history) = (IF Truthy(vViewDesc) THEN 1 ELSE 0)
                               + Len(vOut.column_descriptions)
             /\ \A k \in 1..Len(history) :
                    IF Truthy(vViewDesc) /\ k = 1
                    THEN /\ history[k].object_type = <<"VIEW">>
                         /\ history[k].after = vViewDesc
                    ELSE LET j == k - (IF Truthy(vViewDesc) THEN 1 ELSE 0)
                         IN  /\ history[k].object_type = <<"COLUMN">>
                             /\ history[k].column_name = vOut.column_descriptions[j].k
                             /\ history[k].after = vOut.column_descriptions[j].v
        ELSE ~vOut.result /\ vOut.executed = <<>> /\ history = <<>>

\* the call got as far as looking for the boundary between header and body
BoundarySought ==
    /\ vPc = "done" /\ vDdl # <<>>
    /\ vOut.stage \notin {"no ddl", "nothing to update", "no view name"}

\* C19 (as stated): the five boundary patterns are tried in their order and
\* the first that matches gives the boundary; when none matches, the first
\* occurrence of ' AS ' in the upper-cased DDL is the boundary and the
\* statement is built from there; when that is absent too, the call returns
\* False without building or executing a statement.
C19_BoundarySearch ==
    BoundarySought =>
        LET t == Upper(vDdl)
            hits == {k \in 1..Len(as_patterns) : Search(as_patterns[k], t) # -1}
        IN  IF hits # {}
            THEN /\ ViewRebuilt
                 /\ vOut.select_statement
                        = SelectStatement(vDdl, Search(as_patterns[Min(hits)], t))
            ELSE IF SimpleAsEnd(t) # -1
            THEN /\ ViewRebuilt
                 /\ vOut.select_statement = SelectStatement(vDdl, SimpleAsEnd(t))
            ELSE ~vOut.result /\ vOut.new_ddl = None /\ vOut.executed = <<>>

C24_Occurs(text, part) ==
    \E i \in 1..(Len(text) - Len(part) + 1) : SubSeq(text, i, i + Len(part) - 1) = part

\* C24: when update_view_descriptions is called with no new view description
\* for a view whose definition carries the view-level comment 'old', the
\* rebuilt CREATE OR REPLACE VIEW statement still carries that comment.
C24_ViewCommentKept ==
    (ViewRebuilt /\ vShape \in {"comment paren", "comment select"} /\ vViewDesc = None)
        => C24_Occurs(vOut.new_ddl, <<SQ, "o", "l", "d", SQ>>)
(***************************************************************************)
(* Claims about the bulk DMF configuration (SpecBulk)                      *)
(***************************************************************************)
\* the lines of the SQL block that hold a statement, as written
C5_Statements ==
    LET lines == Split(bSql, NL)
        holds == {i \in 1..Len(lines) :
                    /\ \E k \in 1..Len(lines[i]) : ~IsWs(lines[i][k])
                    /\ lines[i][SkipWs(lines[i], 1)] # "--"}
    IN  Pick([i \in 1..Len(lines) |-> Strip(lines[i])], holds)

\* what a statement does: the table it alters, the metric it adds (or
\* SCHEDULE) and the text between its parentheses (or quotes)
C5_Shape(stmt) ==
    LET sched == Find(stmt, "SET DATA_METRIC_SCHEDULE")
        add == Find(stmt, "ADD DATA METRIC FUNCTION")
    IN  IF sched # -1
        THEN [ table |-> SubSeq(stmt, 3, sched - 1), metric |-> "SCHEDULE",
               on |-> SubSeq(stmt, sched + 6, Len(stmt) - 2) ]
        ELSE [ table |-> SubSeq(stmt, 3, add - 1), metric |-> stmt[add + 4],
               on |-> SubSeq(stmt, add + 9, Len(stmt) - 2) ]

\* the statements the claim lists for one table
C5_Expected(t) ==
    LET table == GetFullyQualifiedName(DbName, SchName, bConfigs[t].name)
        config == bConfigs[t].config
        stmt(metric, on) == [table |-> table, metric |-> metric, on |-> on]
    IN  <<stmt("SCHEDULE", <<bSchedule.schedule_expression>>)>>
        \o (IF config.row_count = "on" THEN <<stmt("ROW_COUNT", <<>>)>> ELSE <<>>)
        \o (IF config.freshness = "on" /\ config.freshness_column # None
            THEN <<stmt("FRESHNESS", QuoteIdentifier(config.freshness_column))>> ELSE <<>>)
        \o Join([i \in 1..Len(config.column_dmfs) |->
                    [j \in 1..Len(config.column_dmfs[i].dmfs) |->
                        stmt(config.column_dmfs[i].dmfs[j],
                             QuoteIdentifier(config.column_dmfs[i].col))]],
                <<>>)

\* the number of metrics one table's config enables
RECURSIVE C5_ColumnMetrics(_)
C5_ColumnMetrics(column_dmfs) ==
    IF column_dmfs = <<>> THEN 0
    ELSE Len(Head(column_dmfs).dmfs) + C5_ColumnMetrics(Tail(column_dmfs))
C5_Enabled(config) ==
    (IF config.row_count = "on" THEN 1 ELSE 0)
    + (IF config.freshness = "on" /\ config.freshness_column # None THEN 1 ELSE 0)
    + C5_ColumnMetrics(config.column_dmfs)
RECURSIVE C5_Count(_)
C5_Count(t) == IF t = 0 THEN 0 ELSE C5_Count(t - 1) + 1 + C5_Enabled(bConfigs[t].config)

\* C5: the generated block holds, table after table in map order, one
\* schedule statement, then ROW_COUNT if enabled, then FRESHNESS on the
\* designated column if enabled and designated, then one statement per
\* (column, metric) pair in column-then-metric order; so 1 + the number of
\* enabled metrics statements per table.
C5_StatementSequence ==
    (bPc \in {"generated", "applied"} /\ bConfigs # <<>>) =>
        /\ [k \in 1..Len(C5_Statements) |-> C5_Shape(C5_Statements[k])]
            = Join([t \in 1..Len(bConfigs) |-> C5_Expected(t)], <<>>)
        /\ Len(C5_Statements) = C5_Count(Len(bConfigs))

\* the ORDERS example: set-schedule, ROW_COUNT, NULL_COUNT on AMT
C5_Witness ==
    /\ bPc = "generated"
    /\ bConfigs = <<[name |-> Orders, config |-> OrdersConfig]>>
    /\ Len(C5_Statements) = 3
    /\ C5_Shape(C5_Statements[1]).metric = "SCHEDULE"
    /\ C5_Shape(C5_Statements[1]).on = <<"60 MINUTE">>
    /\ C5_Shape(C5_Statements[2]).metric = "ROW_COUNT"
    /\ C5_Shape(C5_Statements[3]).metric = "NULL_COUNT"
    /\ C5_Shape(C5_Statements[3]).on = <<"A", "M", "T">>

\* C6: the executor attempts every non-blank, non-comment line once, in text
\* order, whatever fails, and success_count + error_count is their number.
C6_EveryLineAttemptedOnce ==
    bPc = "applied" =>
        /\ bOut.attempted = C5_Statements
        /\ bOut.success_count + bOut.error_count = Len(C5_Statements)
        /\ bOut.error_count = Cardinality(bExecFail \cap (1..Len(C5_Statements)))

\* a block with blank and comment lines whose first statement fails and
\* whose later statements are attempted all the same
C6_Witness ==
    /\ bPc = "applied"
    /\ 1 \in bExecFail
    /\ Len(bOut.attempted) >= 3
    /\ Len(Split(bSql, NL)) > Len(bOut.attempted)
    /\ bOut.success_count >= 1

\* three executable statements, the second failing, the others succeeding
C7_SecondOfThreeFails ==
    /\ bPc = "applied"
    /\ bOut.total_commands = 3
    /\ bExecFail = {2}

C15_SameTextAtAnyMoment ==
    (bPc = "generated" /\ bConfigs # <<>>)
    => \A later \in Moments :
            GenerateBulkDmfSql(DbName, SchName, bSchedule, bConfigs, later) = bSql

\* C16: a bulk execution of at least one statement ends with exactly one of
\* three final messages: success iff no statement failed, partial success
\* iff some succeeded and some failed, failed iff none succeeded; a block
\* without an executable statement is answered with an error message alone,
\* and nothing is executed or logged.
C16_OneFinalStatus ==
    bPc = "applied" =>
        IF SqlLines(bSql) # <<>>
        THEN /\ bOut.total_commands >= 1
             /\ bOut.status \in {"success", "partial success", "failed"}
             /\ bOut.status = "success" <=> bOut.error_count = 0
             /\ bOut.status = "partial success"
                    <=> (bOut.success_count > 0 /\ bOut.error_count > 0)
             /\ bOut.status = "failed" <=> bOut.success_count = 0
        ELSE /\ bOut.status = "no commands"
             /\ bOut.attempted = <<>> /\ bOut.success_count = 0 /\ bOut.error_count = 0
             /\ history = <<>>

\* three statements were attempted, one was rejected, and the partial
\* success was reported
C16_Witness ==
    /\ bPc = "applied" /\ bOut.status = "partial success"
    /\ bOut.total_commands = 3 /\ bOut.success_count = 2 /\ bOut.error_count = 1

\* statements of a table whose fully qualified name is full
C21_Begins(line, prefix) ==
    Len(line) >= Len(prefix) /\ SubSeq(line, 1, Len(prefix)) = prefix
C21_SetsSchedule(line, full) ==
    C21_Begins(line, <<"ALTER TABLE", SP>> \o full \o <<SP, "SET DATA_METRIC_SCHEDULE">>)
C21_AddsMetric(line, full) ==
    C21_Begins(line, <<"ALTER TABLE", SP>> \o full \o <<SP, "ADD DATA METRIC FUNCTION">>)
C21_FullNames ==
    {GetFullyQualifiedName(DbName, SchName, bConfigs[t].name) : t \in 1..Len(bConfigs)}

\* C21: when a generated block is executed, every ADD DATA METRIC FUNCTION
\* statement sent to the warehouse belongs to a configured table whose SET
\* DATA_METRIC_SCHEDULE statement was sent before it.
C21_ScheduleIssuedFirst ==
    (bPc = "applied" /\ bConfigs # <<>>)
    => \A i \in 1..Len(bOut.attempted) :
            Contains(bOut.attempted[i], "ADD DATA METRIC FUNCTION")
            => \E full \in C21_FullNames :
                /\ C21_AddsMetric(bOut.attempted[i], full)
                /\ \E j \in 1..(i - 1) : C21_SetsSchedule(bOut.attempted[j], full)

\* two tables were configured, and metrics of both were sent
C21_Witness ==
    /\ bPc = "applied" /\ Len(bConfigs) = 2
    /\ \A full \in C21_FullNames :
            \E i \in 1..Len(bOut.attempted) : C21_AddsMetric(bOut.attempted[i], full)

\* the positions, in order, of the statements sent that add a metric and
\* were accepted
C22_Added ==
    SelectSeq([i \in 1..Len(bOut.attempted) |-> i],
              LAMBDA i : /\ Contains(Upper(bOut.attempted[i]), "ADD DATA METRIC FUNCTION")
                         /\ i \notin bExecFail)

\* C22 (as stated): a bulk execution appends exactly one record for each
\* ADD DATA METRIC FUNCTION statement that was accepted, in the order of the
\* statements, and none for a rejected statement or for a SET
\* DATA_METRIC_SCHEDULE statement.
C22_OneRecordPerAddedMetric ==
    bPc = "applied" =>
        /\ Len(history) = Len(C22_Added)
        /\ \A k \in 1..Len(history) :
            k <= Len(C22_Added) =>
                <<history[k]>> = LogDmfExecution(<<>>, TRUE, DbName, SchName,
                                                 bOut.attempted[C22_Added[k]])

\* C30: the block generated for the configured tables never holds the same
\* ADD DATA METRIC FUNCTION statement twice (the statement names its table,
\* so two equal statements are two statements of one table).
C30_NoStatementTwice ==
    (bPc = "generated" /\ bConfigs # <<>>) =>
        \A i, j \in 1..Len(SqlLines(bSql)) :
            (/\ i # j
             /\ Contains(SqlLines(bSql)[i], "ADD DATA METRIC FUNCTION"))
                => SqlLines(bSql)[i] # SqlLines(bSql)[j]
(***************************************************************************)
(* Claims about the fetch cache (SpecCache)                                *)
(***************************************************************************)
\* C8: a call of get_tables_and_views, get_columns or get_table_contacts is
\* answered from the cache only by an entry computed under the same refresh
\* token; with a new token the warehouse is queried again.
C8_NewTokenBypassesCache ==
    (cLast.op = "fetch" /\ cFn \in TokenFetchers /\ cLast.hit) =>
        cLast.found.token = cLast.token

\* C9: whatever the refresh token, a call made less than 300 seconds after
\* the cached computation returns the cached value without querying, and a
\* call made more than 300 seconds after it queries again.
C9_EntriesExpire ==
    cLast.op = "fetch" =>
        /\ (cLast.found.age >= 0 /\ cLast.found.age < 300) =>
                /\ cLast.hit
                /\ cLast.value = cLast.found.value
                /\ cCache[cLast.args] = cLast.found
        /\ cLast.found.age > 300 =>
                /\ ~cLast.hit
                /\ cLast.value = cData
                /\ cCache[cLast.args] = [age |-> 0, token |-> cLast.token, value |-> cData]

\* an entry computed under the caller's present token, older than 300
\* seconds, is computed again
C9_Witness ==
    /\ cLast.op = "fetch"
    /\ cFn = "get_columns"
    /\ cLast.found.age > 300
    /\ cLast.found.token = cLast.token
    /\ ~cLast.hit
    /\ cCache[cLast.args].age = 0
(***************************************************************************)
(* Claims about the audit table (SpecAudit)                                *)
(***************************************************************************)
\* C3: the audit log is append-only: whatever the operation (description
\* generation, view recreation, bulk metric apply, contact assignment, setup,
\* refresh, history viewing), the records present before it are all present
\* and unchanged after it, in their places; no operation updates, deletes,
\* truncates or recreates the table.
C3_AppendOnly ==
    [][ /\ Len(history') >= Len(history)
        /\ SubSeq(history', 1, Len(history)) = history ]_vars

\* the same table comment applied twice has left two equal records, and a
\* later session's setup found the table and has kept both
C3_Witness ==
    /\ aLast.op = "setup" /\ aSetup
    /\ Len(history) >= 2
    /\ history[1].object_type = <<"TABLE">>
    /\ history[2] = history[1]

\* C4 (as stated): every operation leaves one record per atomic change the
\* warehouse accepted (object comment, column comment, metric added, contact
\* purpose set), whatever the outcome of the history INSERT.
C4_OneRecordPerChange == aLast.records = aLast.changes


\* C26: when generate_descriptions_for_objects returns, no pending view
\* description (view_desc_<object>) remains in the session state, also when
\* the recreation of the view failed.
C26_NoPendingViewDescription == aLast.op = "describe" => aSession = <<>>

\* C28: a contact record for purpose P is appended for a table only if P was
\* part of the SET CONTACT statement the warehouse accepted for that table,
\* for contacts chosen from the select boxes and for contacts typed into the
\* text inputs (where a purpose may be left empty).
C28_RecordedPurposesWereSet ==
    aLast.op = "contacts" =>
        \A k \in (Len(history) - aLast.records + 1)..Len(history) :
            \E purpose \in aLast.purposes :
                history[k].object_type = <<"CONTACT_">> \o purpose
(***************************************************************************)
(* Claims on the metadata fetchers (SpecMeta)                              *)
(***************************************************************************)
\* the queries the called fetcher issues are all rejected
C12_EveryQueryFails ==
    /\ mPc = "done"
    /\ CASE mCall.fn = "get_databases" -> ~mWorld.databases.ok
         [] mCall.fn = "get_schemas" -> ~mWorld.schemata.ok /\ ~mWorld.show_schemas.ok
         [] mCall.fn = "get_tables_and_views" ->
                /\ mCall.schema_name = "" => ~mWorld.schemata.ok /\ ~mWorld.show_schemas.ok
                /\ ~mWorld.tables_ok /\ ~mWorld.show_tables_ok /\ ~mWorld.show_views_ok
         [] mCall.fn = "get_columns" -> ~mWorld.columns.ok /\ ~mWorld.desc.ok
         [] mCall.fn = "get_all_contacts" -> ~mWorld.contacts.ok
         [] mCall.fn = "get_table_contacts" -> ~mWorld.references.ok
         [] OTHER -> FALSE

\* C12: when every query a metadata fetcher issues fails, the call raises
\* nothing and returns its empty or default value: an empty list for
\* get_databases and get_schemas, a frame without rows (and with the
\* fetcher's columns) for get_tables_and_views and get_columns, the list
\* holding only "None" for get_all_contacts, an empty dict for
\* get_table_contacts.
C12_FailuresGiveDefaults ==
    C12_EveryQueryFails =>
        /\ ~mOut.raised
        /\ mOut.messages # <<>>
        /\ mOut.kind = CASE mCall.fn \in {"get_databases", "get_schemas", "get_all_contacts"} -> "list"
                         [] mCall.fn \in {"get_tables_and_views", "get_columns"} -> "frame"
                         [] OTHER -> "dict"
        /\ IF mCall.fn = "get_all_contacts" THEN mOut.value = <<"None">>
           ELSE Len(mOut.value) = 0
        /\ mCall.fn = "get_columns" =>
                mOut.columns = <<"COLUMN_NAME", "DATA_TYPE", "CURRENT_DESCRIPTION",
                                 "HAS_DESCRIPTION">>
        /\ mCall.fn = "get_tables_and_views" =>
                mOut.columns = (IF mCall.schema_name = "" THEN <<"SCHEMA_NAME">> ELSE <<>>)
                               \o <<"OBJECT_NAME", "OBJECT_TYPE", "CURRENT_DESCRIPTION",
                                    "HAS_DESCRIPTION">>

\* get_columns was called, its INFORMATION_SCHEMA query and its DESC TABLE
\* were both rejected, and an empty frame came back
C12_Witness ==
    /\ C12_EveryQueryFails /\ mCall.fn = "get_columns"
    /\ ~mOut.raised /\ mOut.kind = "frame" /\ mOut.value = <<>>
    /\ mOut.messages = <<"warning", "error">>

\* C13 (as stated): get_schemas returns a list, possibly empty, for every
\* outcome of its queries - also when the INFORMATION_SCHEMA query succeeds
\* and yields no schema - so the schema selector of a page, which evaluates
\* `x in schemas` and [""] + schemas, never raises on its result.
C13_SchemasIsAList ==
    /\ (mPc = "done" /\ mCall.fn = "get_schemas") => mOut.kind = "list"
    /\ (mPc = "done" /\ mCall.fn = "schema selector") => ~mOut.raised

\* the names of the objects in the frame a call returned
C17_Names == {mOut.value[i].OBJECT_NAME : i \in 1..Len(mOut.value)}

\* C17 (as stated): on every path of get_tables_and_views that lists views,
\* the INFORMATION_SCHEMA path and the SHOW fallback path, a view whose
\* zero-row probe fails is absent from the result; the call raises nothing,
\* and on the INFORMATION_SCHEMA path every table and every view whose probe
\* succeeds is present.
C17_FailedProbeExcluded ==
    (mPc = "done" /\ mCall.fn = "get_tables_and_views")
    => /\ ~mOut.raised
       /\ \A i \in 1..Len(mWorld.catalog) :
            LET o == mWorld.catalog[i]
            IN  /\ (o.type = "VIEW" /\ ~o.accessible) => o.name \notin C17_Names
                /\ (mWorld.tables_ok /\ mOut.messages = <<>>
                    /\ (o.type = "VIEW" => o.accessible)) => o.name \in C17_Names

(***************************************************************************)
(* Claims about description runs (SpecDescribe)                            *)
(***************************************************************************)
\* the selected object whose schema the rows of the last run do not give
C23_NoSchemaFor(name) ==
    \/ ~dLast.has_schema
    \/ \A r \in 1..Len(dLast.rows) : dLast.rows[r].OBJECT_NAME # name

C23_FirstRowOf(name) ==
    dLast.rows[Min({r \in 1..Len(dLast.rows) : dLast.rows[r].OBJECT_NAME = name})]

\* C23: in a run with no schema selected, a selected object whose schema is
\* not found in the selected rows is skipped: it is reported as skipped, no
\* statement is accepted for it and no record is appended for it; the run
\* returns, and every other selected object whose statement the warehouse
\* accepts has a description applied.
C23_SkippedAndRestProcessed ==
    (dLast.op = "describe" /\ ~Truthy(dLast.schema)) =>
        \A i \in 1..Len(dLast.objects) :
            IF C23_NoSchemaFor(dLast.objects[i])
            THEN /\ \E k \in 1..Len(dLast.skipped) : dLast.skipped[k] = dLast.objects[i]
                 /\ \A k \in 1..Len(dLast.applied) : dLast.applied[k].object # dLast.objects[i]
                 /\ \A k \in dLast.first..Len(history) :
                        history[k].object_name # dLast.objects[i]
            ELSE <<C23_FirstRowOf(dLast.objects[i]).SCHEMA_NAME, dLast.objects[i], <<>>>>
                        \notin dLast.execFail
                    => \E k \in 1..Len(dLast.applied) :
                        /\ dLast.applied[k].object = dLast.objects[i]
                        /\ dLast.applied[k].schema
                                = C23_FirstRowOf(dLast.objects[i]).SCHEMA_NAME

\* the view is skipped for want of a row, and the table selected after it
\* has its description applied
C23_Witness ==
    /\ dLast.op = "describe" /\ ~Truthy(dLast.schema)
    /\ dLast.objects = <<ViewName, TableName>>
    /\ dLast.skipped = <<ViewName>>
    /\ \E k \in 1..Len(dLast.applied) : dLast.applied[k].object = TableName

\* two records of the audit table are about the same object
C25_SameObject(i, j) ==
    /\ history[i].database = history[j].database
    /\ history[i].schema = history[j].schema
    /\ history[i].object_type = history[j].object_type
    /\ history[i].object_name = history[j].object_name
    /\ history[i].column_name = history[j].column_name

\* C25: over any sequence of description changes to the same table, column
\* or view, with or without a Refresh in between, the before value of each
\* record equals the after value of the previous record for that object.
C25_BeforeIsPreviousAfter ==
    \A i, j \in 1..Len(history) :
        (/\ i < j
         /\ C25_SameObject(i, j)
         /\ \A k \in (i + 1)..(j - 1) : ~C25_SameObject(i, k))
            => history[j].before = history[i].after

\* C27: in a run with no schema selected on rows ticked in the page, where
\* two rows of different schemas have the same name, a description is
\* applied for the (schema, name) pair of every row the warehouse accepts,
\* and no change is applied twice.
C27_EachRowInItsSchema ==
    (/\ dLast.op = "describe" /\ ~Truthy(dLast.schema) /\ dLast.has_schema
     /\ dLast.objects = [r \in 1..Len(dLast.rows) |-> dLast.rows[r].OBJECT_NAME]
     /\ \E r, q \in 1..Len(dLast.rows) :
            /\ dLast.rows[r].OBJECT_NAME = dLast.rows[q].OBJECT_NAME
            /\ dLast.rows[r].SCHEMA_NAME # dLast.rows[q].SCHEMA_NAME)
        => /\ \A r \in 1..Len(dLast.rows) :
                \E k \in 1..Len(dLast.applied) :
                    /\ dLast.applied[k].schema = dLast.rows[r].SCHEMA_NAME
                    /\ dLast.applied[k].object = dLast.rows[r].OBJECT_NAME
           /\ \A k, l \in 1..Len(dLast.applied) :
                k # l => [dLast.applied[k] EXCEPT !.value = None]
                            # [dLast.applied[l] EXCEPT !.value = None]

\* C29: the total reported by generate_descriptions_for_objects equals the
\* number of descriptions applied to the warehouse in that run, for tables
\* and for views.
C29_ReportedIsApplied ==
    dLast.op = "describe" => dLast.total_updates = Len(dLast.applied)
=============================================================================
